---- MODULE Spec2Model ----
(***************************************************************************)
(* Bazarino bot (src/main.py): the stock commit of the order conversation. *)
(*                                                                         *)
(* The webhook awaits tg_app.process_update for every HTTP request, so     *)
(* the handlers of different users are coroutines of one event loop that   *)
(* interleave at every await.  One session handles one update at a time.   *)
(* A step of the model is one awaited call on the products sheet with the  *)
(* code around it; the calls that touch only the catalog cache (the two    *)
(* get_products of a written line) and the appends to the order log are    *)
(* taken together as one step each.                                        *)
(***************************************************************************)
EXTENDS Integers, Sequences, FiniteSets, TLC

\* ------------------------------------------------------------------ bounds
\* largest stock value a cell of the products sheet starts with
MaxStock == 2
\* largest quantity of one cart line
MaxQty == 2
\* rows the sheet of abandoned carts takes
MaxRows == 1
\* times the version cell L1 of the products sheet is changed
MaxVersion == 1

\* LOW_STOCK_THRESHOLD of the deployment (environment variable)
LOW_STOCK_TH == 1

\* rows of the products sheet, and the chat sessions (one per user)
Products == {"A", "B"}
Sessions == {"s1", "s2"}

\* unit price per product in cents (column "price")
Price == [p \in Products |-> IF p = "A" THEN 600 ELSE 400]

\* rows of the discounts sheet: code -> discount_percent
Discounts == [c \in {"WELCOME10"} |-> 10]

\* value of user_data["discount_code"] after /skip
None == "None"

\* message texts a user can send in the notes step
Texts == {"no onions", "/skip", "/cancel"}

VARIABLES
    sheet,      \* products_ws, column "stock": product id -> stock
    prices,     \* products_ws, column "price": product id -> price in cents
    L1,         \* products_ws, cell L1: the catalog version
    utcnow,     \* dt.datetime.utcnow(), in minutes
    current_version, \* get_products: the version a call in flight has probed
    cache,      \* get_products._data (stock and price per id), ._version, ._ts
    orders,     \* orders_ws: the appended rows
    abandoned,  \* abandoned_cart_ws: the appended rows
    conv,       \* ConversationHandler state of each session
    user_data,  \* ctx.user_data of each session
    pc,         \* position of the session's running handler
    cart,       \* confirm_order: local `cart` (the list the commit works on)
    records,    \* update_stock: local `records`
    line,       \* update_stock / confirm_order: index of the current cart line
    stockOk,    \* what update_stock returned, and why
    reply,      \* last message a handler of the conversation sent
    update,     \* update.message.text of the session's last message
    total,      \* confirm_order: local `total` after the discount, in cents
    stock0,     \* history: the stock cells when the commits started
    written,    \* history: the product ids whose cell the commit wrote
    lastWriter, \* history: the session that wrote each stock cell last
    alerts,     \* the messages sent to ADMIN_ID, one entry per send call
    last_checked_row, \* check_order_status._last_checked_row
    tg_app,     \* the global tg_app: None until lifespan has built it
    response,   \* the HTTP answer to the last webhook request of a session
    shipped_cells \* check_order_status: local of the run in flight

\* what the stock commit and the cart handlers leave alone
service == <<alerts, last_checked_row, tg_app, response, shipped_cells>>

vars == <<sheet, prices, L1, utcnow,
          current_version, cache, orders, abandoned, conv, user_data,
          pc, cart, records, line, stockOk, reply, update, total, stock0,
          written, lastWriter, service>>

\* the application is running: lifespan has built tg_app, no job has run
ServiceInit ==
    /\ alerts = <<>>
    /\ last_checked_row = 1
    /\ tg_app = "Application"
    /\ response = [s \in Sessions |-> "none"]
    /\ shipped_cells = [running |-> FALSE, rows |-> {}]

\* ------------------------------------------------------------- user_data
\* ctx.user_data is a dict: a function from the keys that are set
EmptyData == [k \in {} |-> None]

Get(d, k, default) == IF k \in DOMAIN d THEN d[k] ELSE default

Put(d, k, v) == [x \in DOMAIN d \cup {k} |-> IF x = k THEN v ELSE d[x]]

\* a cart line as add_cart builds it
Item(p, q) == [id |-> p, qty |-> q, price |-> Price[p]]

\* carts add_cart/dec_/del_ can leave: at most one line per product, qty >= 1
Carts ==
    {<<>>}
    \cup {<<Item(p, q)>> : p \in Products, q \in 1..MaxQty}
    \cup {<<Item(p1, q1), Item(p2, q2)>> :
            <<p1, p2>> \in {pp \in Products \X Products : pp[1] # pp[2]},
            <<q1, q2>> \in (1..MaxQty) \X (1..MaxQty)}

\* user_data of a session that has answered every step before the notes
SessionData(s, c, code) ==
    [k \in {"cart", "dest", "name", "handle", "user_id", "phone",
            "address", "postal", "discount_code"} |->
        CASE k = "cart" -> c
          [] k = "user_id" -> s
          [] k = "discount_code" -> code
          [] OTHER -> k]

RECURSIVE SumQty(_, _)
\* quantity of product p in cart c
SumQty(c, p) ==
    IF c = <<>> THEN 0
    ELSE (IF Head(c).id = p THEN Head(c).qty ELSE 0) + SumQty(Tail(c), p)

\* cart_total = lambda c: sum(i["qty"] * i["price"] for i in c)
RECURSIVE cart_total(_)
cart_total(c) ==
    IF c = <<>> THEN 0 ELSE Head(c).qty * Head(c).price + cart_total(Tail(c))

\* ------------------------------------------------------------ get_products
\* minutes a snapshot is kept: dt.timedelta(minutes=5)
TTL == 5

\* get_products before its first call: no _data and no _version, and
\* getattr(get_products, "_ts", dt.datetime.min)
NoSnapshot == [data |-> <<>>, price |-> <<>>, version |-> None, ts |-> -1]

\* what get_products stores on a reload, lines 405-407: the rows that
\* load_products reads, the probed version and the time the snapshot ends
Snapshot ==
    [data |-> sheet, price |-> prices, version |-> L1, ts |-> utcnow + TTL]

\* get_products: reload the catalog when the version cell differs from the
\* cached version or the TTL (_ts) has expired, else keep the snapshot
get_products(c, expired) ==
    IF c = NoSnapshot \/ c.version # L1 \/ expired THEN Snapshot ELSE c

\* alert_admin: below the threshold it calls get_products() for the name
alert_admin(c, stock, expired) ==
    IF stock <= LOW_STOCK_TH THEN get_products(c, expired) ELSE c

\* -------------------------------------------------------------- update_stock
\* the line update_stock is working on
CurItem(s) == cart[s][line[s]]

\* variant: the stock is taken from the catalog cache instead of the sheet
RowStock_cache(s, pid) == cache.data[pid]

\* update_stock: the stock value a line is compared with and subtracted from
RowStock(s, pid) == records[s][pid]

\* update_stock: new = int(row["stock"]) - qty
NewStock(s) == RowStock(s, CurItem(s).id) - CurItem(s).qty

\* variant: a result one unit below zero passes the check
Negative_late(new) == new < -1

\* variant: the check for a negative result is missing
Negative_never(new) == FALSE

\* update_stock: `if new < 0: return False`
Negative(new) == new < 0

\* update_stock: `if row["id"] == pid` holds for a row of the records
HasRow(s) == CurItem(s).id \in DOMAIN records[s]

\* filters.COMMAND: the texts that start with "/"
IsCommand(text) == Len(text) >= 1 /\ SubSeq(text, 1, 1) = "/"

\* variant: the handler ends without clear()
EndConversation_keep(s, msg) ==
    /\ user_data' = user_data
    /\ conv' = [conv EXCEPT ![s] = "END"]
    /\ pc' = [pc EXCEPT ![s] = "idle"]
    /\ reply' = [reply EXCEPT ![s] = msg]

\* confirm_order, lines 748-751 / 779-783 / 804-808: message, clear(), END
EndConversation(s, msg) ==
    /\ user_data' = [user_data EXCEPT ![s] = EmptyData]
    /\ conv' = [conv EXCEPT ![s] = "END"]
    /\ pc' = [pc EXCEPT ![s] = "idle"]
    /\ reply' = [reply EXCEPT ![s] = msg]

\* ------------------------------------------------------------ confirm_order
\* variant: the empty cart is not checked
confirm_order_any(s, text) ==
    /\ pc[s] = "idle"
    /\ conv[s] = "ASK_NOTES"
    /\ ~IsCommand(text)
    /\ LET ud == Put(user_data[s], "notes", IF text = "/skip" THEN "" ELSE text)
           c  == Get(ud, "cart", <<>>)
       IN  /\ cart' = [cart EXCEPT ![s] = c]
           /\ records' = [records EXCEPT ![s] = sheet]
           /\ line' = [line EXCEPT ![s] = 1]
           /\ user_data' = [user_data EXCEPT ![s] = ud]
           /\ pc' = [pc EXCEPT ![s] = "us_line"]
           /\ UNCHANGED <<conv, reply, stockOk>>
    /\ update' = [update EXCEPT ![s] = text]
    /\ UNCHANGED <<sheet, L1, cache, orders, abandoned, stock0, prices, utcnow,
                   current_version,
                   total, written, lastWriter, service>>

\* confirm_order, lines 736-748, up to update_stock's get_all_records:
\* the ASK_NOTES handler takes a text that is not a command, stores the
\* notes, ends on an empty cart, else starts update_stock and reads records
confirm_order(s, text) ==
    /\ pc[s] = "idle"
    /\ conv[s] = "ASK_NOTES"
    /\ ~IsCommand(text)
    /\ LET ud == Put(user_data[s], "notes", IF text = "/skip" THEN "" ELSE text)
           c  == Get(ud, "cart", <<>>)
       IN  /\ cart' = [cart EXCEPT ![s] = c]
           /\ IF c = <<>>
              THEN /\ EndConversation(s, "CART_EMPTY")
                   /\ UNCHANGED <<records, line, stockOk>>
              ELSE \E ok \in BOOLEAN :
                     IF ok
                     THEN /\ records' = [records EXCEPT ![s] = sheet]
                          /\ line' = [line EXCEPT ![s] = 1]
                          /\ user_data' = [user_data EXCEPT ![s] = ud]
                          /\ pc' = [pc EXCEPT ![s] = "us_line"]
                          /\ UNCHANGED <<conv, reply, stockOk>>
                     ELSE \* gspread APIError: update_stock returns False
                          /\ stockOk' = [stockOk EXCEPT ![s] = "api_error"]
                          /\ EndConversation(s, "STOCK_EMPTY")
                          /\ UNCHANGED <<records, line>>
    /\ update' = [update EXCEPT ![s] = text]
    /\ UNCHANGED <<sheet, L1, cache, orders, abandoned, stock0, prices, utcnow,
                   current_version,
                   total, written, lastWriter, service>>

\* variant: the failing line restores the cells of the lines before it
update_stock_negative_rollback(s) ==
    /\ pc[s] = "us_line"
    /\ line[s] <= Len(cart[s])
    /\ HasRow(s)
    /\ Negative(NewStock(s))
    /\ stockOk' = [stockOk EXCEPT ![s] = "negative"]
    /\ EndConversation(s, "STOCK_EMPTY")
    /\ sheet' = [p \in Products |->
                   IF p \in written[s] THEN records[s][p] ELSE sheet[p]]
    /\ lastWriter' = [p \in Products |->
                        IF p \in written[s] THEN s ELSE lastWriter[p]]
    /\ UNCHANGED <<L1, cache, orders, abandoned, update, cart, records, line,
                   stock0, prices, utcnow, current_version, total, written,
                   service>>

\* update_stock, lines 632-634, and confirm_order, lines 748-751:
\* the line asks for more than the row holds, update_stock returns False,
\* confirm_order answers STOCK_EMPTY, clears user_data and ends
update_stock_negative(s) ==
    /\ pc[s] = "us_line"
    /\ line[s] <= Len(cart[s])
    /\ HasRow(s)
    /\ Negative(NewStock(s))
    /\ stockOk' = [stockOk EXCEPT ![s] = "negative"]
    /\ EndConversation(s, "STOCK_EMPTY")
    /\ UNCHANGED <<sheet, L1, cache, orders, abandoned, update, cart, records,
                   line, stock0, prices, utcnow,
                   current_version, total, written, lastWriter, service>>

\* update_stock, line 635: products_ws.update_cell(idx, 10, new)
update_stock_write(s) ==
    /\ pc[s] = "us_line"
    /\ line[s] <= Len(cart[s])
    /\ HasRow(s)
    /\ ~Negative(NewStock(s))
    /\ \E ok \in BOOLEAN :
         IF ok
         THEN /\ sheet' = [sheet EXCEPT ![CurItem(s).id] = NewStock(s)]
              /\ written' = [written EXCEPT ![s] = @ \cup {CurItem(s).id}]
              /\ lastWriter' = [lastWriter EXCEPT ![CurItem(s).id] = s]
              /\ pc' = [pc EXCEPT ![s] = "us_cache"]
              /\ UNCHANGED <<conv, user_data, reply, stockOk>>
         ELSE \* gspread APIError: update_stock returns False
              /\ stockOk' = [stockOk EXCEPT ![s] = "api_error"]
              /\ EndConversation(s, "STOCK_EMPTY")
              /\ UNCHANGED <<sheet, written, lastWriter>>
    /\ UNCHANGED <<L1, cache, orders, abandoned, update, cart, records, line,
                   stock0, prices, utcnow, current_version, total, service>>

\* update_stock, lines 625-626: no row of the records has the id of the
\* cart line, the inner loop does nothing and the next line is taken
update_stock_missing(s) ==
    /\ pc[s] = "us_line"
    /\ line[s] <= Len(cart[s])
    /\ ~HasRow(s)
    /\ line' = [line EXCEPT ![s] = @ + 1]
    /\ UNCHANGED <<sheet, L1, cache, orders, abandoned, update, conv,
                   user_data, pc, cart, records, stockOk, reply, stock0,
                   prices, utcnow, current_version, total, written, lastWriter,
                   service>>

\* variant: the cache entry is not set after the write
update_stock_cache_unset(s) ==
    /\ pc[s] = "us_cache"
    /\ \E e1, e2 \in BOOLEAN :
         cache' = alert_admin(get_products(cache, e1), NewStock(s), e2)
    /\ line' = [line EXCEPT ![s] = @ + 1]
    /\ pc' = [pc EXCEPT ![s] = "us_line"]
    /\ UNCHANGED <<sheet, L1, orders, abandoned, update, conv, user_data,
                   cart, records, stockOk, reply, stock0, prices, utcnow,
                   current_version, total,
                   written, lastWriter, service>>

\* update_stock, lines 636-638: (await get_products())[pid]["stock"] = new,
\* then alert_admin(pid, new); the loop goes to the next cart line
update_stock_cache(s) ==
    /\ pc[s] = "us_cache"
    /\ \E e1, e2 \in BOOLEAN :
         LET c1 == get_products(cache, e1)
             c2 == [c1 EXCEPT !.data[CurItem(s).id] = NewStock(s)]
         IN  cache' = alert_admin(c2, NewStock(s), e2)
    /\ line' = [line EXCEPT ![s] = @ + 1]
    /\ pc' = [pc EXCEPT ![s] = "us_line"]
    /\ UNCHANGED <<sheet, L1, orders, abandoned, update, conv, user_data,
                   cart, records, stockOk, reply, stock0, prices, utcnow,
                   current_version, total,
                   written, lastWriter, service>>

\* variant: the percentage itself is taken off
Discount_flat(amount, code, table) ==
    IF code \in DOMAIN table THEN table[code] ELSE 0

\* confirm_order, lines 755-760: discount of the order
Discount(amount, code, table) ==
    IF code \in DOMAIN table THEN (amount * table[code]) \div 100 ELSE 0

\* update_stock, line 639 (return True), and confirm_order, lines 753-761:
\* the totals; load_discounts returns {} when the discounts sheet fails,
\* and discounts[code] then raises into the handler at lines 804-808
confirm_order_totals(s) ==
    /\ pc[s] = "us_line"
    /\ line[s] > Len(cart[s])
    /\ stockOk' = [stockOk EXCEPT ![s] = "true"]
    /\ \E loaded \in BOOLEAN :
         LET code == Get(user_data[s], "discount_code", None)
             quoted == cart_total(cart[s])
         IN  IF code # None /\ ~loaded
             THEN /\ EndConversation(s, "ERROR_ORDER")
                  /\ total' = [total EXCEPT ![s] = quoted]
                  /\ UNCHANGED line
             ELSE /\ line' = [line EXCEPT ![s] = 1]
                  /\ pc' = [pc EXCEPT ![s] = "co_append"]
                  /\ total' = [total EXCEPT ![s] =
                                  quoted - Discount(quoted, code, Discounts)]
                  /\ UNCHANGED <<conv, user_data, reply>>
    /\ UNCHANGED <<sheet, L1, cache, orders, abandoned, update, cart, records,
                   stock0, prices, utcnow,
                   current_version, written, lastWriter, service>>

\* confirm_order, line 764-771: the row appended for cart line i
OrderRow(s, i) ==
    LET it   == cart[s][i]
        code == Get(user_data[s], "discount_code", None)
    IN  [order_id |-> s, user_id |-> user_data[s]["user_id"],
         id |-> it.id, qty |-> it.qty, price |-> it.price,
         discount |-> Discount(cart_total(cart[s]), code, Discounts),
         status |-> "preparing", notified |-> "FALSE"]

RECURSIVE OrderRows(_, _)
\* the rows of the first n cart lines, in cart order
OrderRows(s, n) ==
    IF n = 0 THEN <<>> ELSE Append(OrderRows(s, n - 1), OrderRow(s, n))

\* confirm_order, lines 762-783 and 785-803: one orders_ws.append_row per
\* cart line, then the invoice and the confirmation; an exception after
\* n rows answers ERROR_SHEET; both ways clear user_data and end
confirm_order_save(s) ==
    /\ pc[s] = "co_append"
    /\ \E n \in 0..Len(cart[s]), ok \in BOOLEAN :
         /\ ~ok \/ n = Len(cart[s])
         /\ orders' = orders \o OrderRows(s, n)
         /\ EndConversation(s, IF ok THEN "ORDER_CONFIRMED" ELSE "ERROR_SHEET")
         \* lines 798-801: abandoned_cart_ws.clear(), a failure is only logged
         /\ \E cleared \in BOOLEAN :
              abandoned' = IF ok /\ cleared THEN <<>> ELSE abandoned
    /\ UNCHANGED <<sheet, L1, cache, update, cart, records, line, stockOk,
                   stock0, prices, utcnow,
                   current_version, total, written, lastWriter, service>>

\* ------------------------------------------------------------ specification
\* add_cart, lines 586-592: the row add_cart appends to abandoned_cart_ws
AbandonedRow(s, c) == [user_id |-> s, cart |-> c]

RECURSIVE AbandonedOf(_, _)
\* the abandoned-cart rows of the sessions of S that hold a cart
AbandonedOf(S, cs) ==
    IF S = {} THEN <<>>
    ELSE LET s == CHOOSE x \in S : TRUE
         IN  (IF cs[s] = <<>> THEN <<>> ELSE <<AbandonedRow(s, cs[s])>>)
             \o AbandonedOf(S \ {s}, cs)

\* the sessions are at the notes step of the order conversation, each with
\* any cart and an accepted discount code (ask_notes lets no other through)
Init ==
    /\ sheet \in [Products -> 0..MaxStock]
    /\ L1 = "0"
    /\ prices = Price
    /\ utcnow = 0
    /\ current_version = [s \in Sessions |-> None]
    /\ ServiceInit
    /\ cache = Snapshot
    /\ total = [s \in Sessions |-> 0]
    /\ orders = <<>>
    /\ conv = [s \in Sessions |-> "ASK_NOTES"]
    /\ \E cs \in [Sessions -> Carts], ds \in [Sessions -> DOMAIN Discounts] :
         /\ user_data = [s \in Sessions |-> SessionData(s, cs[s], ds[s])]
         /\ abandoned = AbandonedOf(Sessions, cs)
    /\ pc = [s \in Sessions |-> "idle"]
    /\ cart = [s \in Sessions |-> <<>>]
    /\ records = [s \in Sessions |-> sheet]
    /\ line = [s \in Sessions |-> 0]
    /\ stockOk = [s \in Sessions |-> "none"]
    /\ reply = [s \in Sessions |-> "none"]
    /\ update = [s \in Sessions |-> "none"]
    /\ stock0 = sheet
    /\ written = [s \in Sessions |-> {}]
    /\ lastWriter = [p \in Products |-> "none"]

Next ==
    \E s \in Sessions :
        \/ \E text \in Texts : confirm_order(s, text)
        \/ update_stock_negative(s)
        \/ update_stock_write(s)
        \/ update_stock_cache(s)
        \/ confirm_order_totals(s)
        \/ confirm_order_save(s)

Spec == Init /\ [][Next]_vars

\* the same sessions when rows of the products sheet were deleted after the
\* carts were filled: the catalog holds only some of the products
InitMissing ==
    /\ \E D \in (SUBSET Products) \ {{}, Products} :
         sheet \in [D -> 0..MaxStock]
    /\ L1 = "0"
    /\ prices = Price
    /\ utcnow = 0
    /\ current_version = [s \in Sessions |-> None]
    /\ ServiceInit
    /\ cache = Snapshot
    /\ total = [s \in Sessions |-> 0]
    /\ orders = <<>>
    /\ conv = [s \in Sessions |-> "ASK_NOTES"]
    /\ \E cs \in [Sessions -> Carts], ds \in [Sessions -> DOMAIN Discounts] :
         /\ user_data = [s \in Sessions |-> SessionData(s, cs[s], ds[s])]
         /\ abandoned = AbandonedOf(Sessions, cs)
    /\ pc = [s \in Sessions |-> "idle"]
    /\ cart = [s \in Sessions |-> <<>>]
    /\ records = [s \in Sessions |-> sheet]
    /\ line = [s \in Sessions |-> 0]
    /\ stockOk = [s \in Sessions |-> "none"]
    /\ reply = [s \in Sessions |-> "none"]
    /\ update = [s \in Sessions |-> "none"]
    /\ stock0 = sheet
    /\ written = [s \in Sessions |-> {}]
    /\ lastWriter = [p \in Products |-> "none"]

NextMissing ==
    \/ Next
    \/ \E s \in Sessions : update_stock_missing(s)

SpecMissing == InitMissing /\ [][NextMissing]_vars

\* ------------------------------------------------------ order conversation
\* ASK_NAME, ASK_PHONE, ASK_ADDRESS, ASK_POSTAL, ASK_DISCOUNT, ASK_NOTES
ConvStates ==
    {"ASK_NAME", "ASK_PHONE", "ASK_ADDRESS", "ASK_POSTAL", "ASK_DISCOUNT",
     "ASK_NOTES"}

\* texts a user sends in each step; a command can be sent in every step
NameTexts == {" Ali "}
PhoneTexts == {" +391234567", "+39", "3331234567"}
AddressTexts == {"Via Roma 12", "Via 1"}
PostalTexts == {"06121"}
CodeTexts == {"WELCOME10", "OLD10", "OFF10", "NOPE"}
Commands == {"/skip", "/cancel"}

\* q.from_user: first and last name of the Telegram profile
ProfileName == "Ali R"

\* rows of the discounts sheet as load_discounts returns them; valid_until
\* is a day number
DiscountSheet ==
    [c \in {"WELCOME10", "OLD10", "OFF10"} |->
        [discount_percent |-> 10,
         valid_until |-> IF c = "OLD10" THEN 9 ELSE 11,
         is_active |-> c # "OFF10"]]

\* dt.datetime.utcnow() when the code is entered: day number and hour
Nows == {[day |-> 10, hour |-> 12], [day |-> 11, hour |-> 0],
         [day |-> 11, hour |-> 12]}

RECURSIVE strip(_)
\* str.strip(): the text without leading and trailing blanks
strip(t) ==
    IF Len(t) >= 1 /\ SubSeq(t, 1, 1) = " "
    THEN strip(SubSeq(t, 2, Len(t)))
    ELSE IF Len(t) >= 1 /\ SubSeq(t, Len(t), Len(t)) = " "
         THEN strip(SubSeq(t, 1, Len(t) - 1))
         ELSE t

\* variant: the length of the phone number is not checked
PhoneValid_prefix(phone) == Len(phone) >= 3 /\ SubSeq(phone, 1, 3) = "+39"

\* ask_address: not (not phone.startswith("+39") or len(phone) < 10)
PhoneValid(phone) ==
    /\ Len(phone) >= 3 /\ SubSeq(phone, 1, 3) = "+39"
    /\ ~(Len(phone) < 10)

\* ask_postal: not (len(address) < 10)
AddressValid(address) == ~(Len(address) < 10)

\* ask_notes, line 724: the code is in the table, active, and the midnight
\* that starts its valid_until day is not before now
CodeValid(code, discounts, now) ==
    /\ code \in DOMAIN discounts
    /\ discounts[code].is_active
    /\ \/ discounts[code].valid_until > now.day
       \/ discounts[code].valid_until = now.day /\ now.hour = 0

\* a handler of the conversation returns: next state and message
Answer(s, ud, state, msg, text) ==
    /\ user_data' = [user_data EXCEPT ![s] = ud]
    /\ conv' = [conv EXCEPT ![s] = state]
    /\ reply' = [reply EXCEPT ![s] = msg]
    /\ update' = [update EXCEPT ![s] = text]
    /\ UNCHANGED <<sheet, L1, cache, orders, abandoned, pc, cart, records,
                   line, stockOk, stock0, prices, utcnow,
                   current_version, total, written,
                   lastWriter, service>>

\* router, lines 984-989 and 1069-1077: the buttons order_perugia and
\* order_italy store the destination; the router is not part of the
\* conversation and takes callback queries in every state
router_dest(s, data) ==
    /\ pc[s] = "idle"
    /\ data \in {"order_perugia", "order_italy"}
    /\ Answer(s,
              Put(Put(user_data[s], "last_menu", data), "dest",
                  IF data = "order_perugia" THEN "Perugia" ELSE "Italia"),
              conv[s], reply[s], data)

\* start_order: entry point of the conversation (button checkout); the
\* locals and the record of the session's previous commit are dropped
start_order(s) ==
    /\ pc[s] = "idle"
    /\ conv[s] = "END"
    /\ IF Get(user_data[s], "dest", None) = None
       THEN /\ reply' = [reply EXCEPT ![s] = "CART_GUIDE"]
            /\ UNCHANGED <<user_data, conv>>
       ELSE /\ user_data' = [user_data EXCEPT ![s] =
                                Put(Put(Put(@, "name", ProfileName),
                                        "handle", "@ali"), "user_id", s)]
            /\ conv' = [conv EXCEPT ![s] = "ASK_NAME"]
            /\ reply' = [reply EXCEPT ![s] = "INPUT_NAME"]
    /\ cart' = [cart EXCEPT ![s] = <<>>]
    /\ records' = [records EXCEPT ![s] = stock0]
    /\ line' = [line EXCEPT ![s] = 0]
    /\ stockOk' = [stockOk EXCEPT ![s] = "none"]
    /\ written' = [written EXCEPT ![s] = {}]
    /\ update' = [update EXCEPT ![s] = "checkout"]
    /\ total' = [total EXCEPT ![s] = 0]
    /\ UNCHANGED <<sheet, L1, cache, orders, abandoned, pc, stock0, prices,
                   utcnow, current_version, lastWriter, service>>

\* ask_phone: handler of ASK_NAME
ask_phone(s, text) ==
    /\ pc[s] = "idle"
    /\ conv[s] = "ASK_NAME"
    /\ ~IsCommand(text)
    /\ Answer(s, Put(user_data[s], "name", strip(text)),
              "ASK_PHONE", "INPUT_PHONE", text)

\* ask_address: handler of ASK_PHONE
ask_address(s, text) ==
    /\ pc[s] = "idle"
    /\ conv[s] = "ASK_PHONE"
    /\ ~IsCommand(text)
    /\ IF ~PhoneValid(strip(text))
       THEN Answer(s, user_data[s], "ASK_PHONE", "PHONE_INVALID", text)
       ELSE Answer(s, Put(user_data[s], "phone", strip(text)),
                   "ASK_ADDRESS", "INPUT_ADDRESS", text)

\* variant: an accepted address goes straight to the discount step
AfterAddress_discount(ud) == "ASK_DISCOUNT"

\* the state ask_postal returns for an accepted address
AfterAddress(ud) == "ASK_POSTAL"

\* ask_postal: handler of ASK_ADDRESS
ask_postal(s, text) ==
    /\ pc[s] = "idle"
    /\ conv[s] = "ASK_ADDRESS"
    /\ ~IsCommand(text)
    /\ IF ~AddressValid(strip(text))
       THEN Answer(s, user_data[s], "ASK_ADDRESS", "ADDRESS_INVALID", text)
       ELSE Answer(s, Put(user_data[s], "address", strip(text)),
                   AfterAddress(user_data[s]), "INPUT_POSTAL", text)

\* ask_discount: handler of ASK_POSTAL
ask_discount(s, text) ==
    /\ pc[s] = "idle"
    /\ conv[s] = "ASK_POSTAL"
    /\ ~IsCommand(text)
    /\ Answer(s, Put(user_data[s], "postal", strip(text)),
              "ASK_DISCOUNT", "INPUT_DISCOUNT", text)

\* ask_notes: handler of ASK_DISCOUNT; load_discounts returns {} when the
\* discounts sheet cannot be read
ask_notes(s, text) ==
    /\ pc[s] = "idle"
    /\ conv[s] = "ASK_DISCOUNT"
    /\ ~IsCommand(text)
    /\ IF text = "/skip"
       THEN Answer(s, Put(user_data[s], "discount_code", None),
                   "ASK_NOTES", "INPUT_NOTES", text)
       ELSE \E loaded \in BOOLEAN, now \in Nows :
              IF CodeValid(strip(text),
                           IF loaded THEN DiscountSheet ELSE <<>>, now)
              THEN Answer(s, Put(user_data[s], "discount_code", strip(text)),
                          "ASK_NOTES", "INPUT_NOTES", text)
              ELSE Answer(s, user_data[s], "ASK_DISCOUNT",
                          "DISCOUNT_INVALID", text)

\* variant: /cancel also writes a row to the order log
cancel_order_logged(s, text) ==
    /\ pc[s] = "idle"
    /\ conv[s] \in ConvStates
    /\ text = "/cancel"
    /\ user_data' = [user_data EXCEPT ![s] = EmptyData]
    /\ conv' = [conv EXCEPT ![s] = "END"]
    /\ reply' = [reply EXCEPT ![s] = "ORDER_CANCELLED"]
    /\ update' = [update EXCEPT ![s] = text]
    /\ orders' = Append(orders, [order_id |-> s, status |-> "cancelled"])
    /\ UNCHANGED <<sheet, L1, cache, abandoned, pc, cart, records, line,
                   stockOk, stock0, prices, utcnow,
                   current_version, total, written, lastWriter, service>>

\* variant: /cancel is a fallback of the steps before the notes only
cancel_order_early(s, text) ==
    /\ pc[s] = "idle"
    /\ conv[s] \in ConvStates \ {"ASK_NOTES"}
    /\ text = "/cancel"
    /\ Answer(s, EmptyData, "END", "ORDER_CANCELLED", text)

\* cancel_order: fallbacks=[CommandHandler("cancel", cancel_order)], taken
\* in every state of the conversation
cancel_order(s, text) ==
    /\ pc[s] = "idle"
    /\ conv[s] \in ConvStates
    /\ text = "/cancel"
    /\ Answer(s, EmptyData, "END", "ORDER_CANCELLED", text)

\* the sessions before checkout: each holds a cart with one unit of A and
\* has not chosen a destination; A has one unit left or none
InitConv ==
    /\ sheet \in {f \in [Products -> 0..MaxStock] : f["A"] <= 1 /\ f["B"] = 0}
    /\ L1 = "0"
    /\ prices = Price
    /\ utcnow = 0
    /\ current_version = [s \in Sessions |-> None]
    /\ ServiceInit
    /\ cache = Snapshot
    /\ total = [s \in Sessions |-> 0]
    /\ orders = <<>>
    /\ conv = [s \in Sessions |-> "END"]
    /\ user_data = [s \in Sessions |-> [cart |-> <<Item("A", 1)>>]]
    /\ abandoned = AbandonedOf(Sessions, [s \in Sessions |-> <<Item("A", 1)>>])
    /\ pc = [s \in Sessions |-> "idle"]
    /\ cart = [s \in Sessions |-> <<>>]
    /\ records = [s \in Sessions |-> sheet]
    /\ line = [s \in Sessions |-> 0]
    /\ stockOk = [s \in Sessions |-> "none"]
    /\ reply = [s \in Sessions |-> "none"]
    /\ update = [s \in Sessions |-> "none"]
    /\ stock0 = sheet
    /\ written = [s \in Sessions |-> {}]
    /\ lastWriter = [p \in Products |-> "none"]

\* lifespan, lines 1271-1291: the handlers of the conversation, the router
\* and the steps of a running commit
NextConv ==
    \E s \in Sessions :
        \/ \E data \in {"order_perugia", "order_italy"} : router_dest(s, data)
        \/ start_order(s)
        \/ \E text \in NameTexts \cup Commands : ask_phone(s, text)
        \/ \E text \in PhoneTexts \cup Commands : ask_address(s, text)
        \/ \E text \in AddressTexts \cup Commands : ask_postal(s, text)
        \/ \E text \in PostalTexts \cup Commands : ask_discount(s, text)
        \/ \E text \in CodeTexts \cup Commands : ask_notes(s, text)
        \/ \E text \in Commands : cancel_order(s, text)
        \/ \E text \in Texts : confirm_order(s, text)
        \/ update_stock_negative(s)
        \/ update_stock_write(s)
        \/ update_stock_cache(s)
        \/ confirm_order_totals(s)
        \/ confirm_order_save(s)

SpecConv == InitConv /\ [][NextConv]_vars

\* --------------------------------------------------------------------- cart
\* callback data of the buttons that change the cart
AddData == {"add_A_c1", "inc_B", "inc_Z"}
DecData == {"dec_A"}
DelData == {"del_B"}

RECURSIVE split(_)
\* str.split("_"): the parts of the text between the underscores
split(t) ==
    LET at == {i \in 1..Len(t) : SubSeq(t, i, i) = "_"}
    IN  IF at = {} THEN <<t>>
        ELSE LET i == CHOOSE x \in at : \A y \in at : x <= y
             IN  <<SubSeq(t, 1, i - 1)>> \o split(SubSeq(t, i + 1, Len(t)))

\* router, lines 1029 and 1041: pid = parts[1] for add_, data[4:] for inc_
CartPid(data) ==
    IF SubSeq(data, 1, 4) = "add_" THEN split(data)[2]
    ELSE SubSeq(data, 5, Len(data))

\* next((i for i in cart if i["id"] == pid), None): index of the first
\* line with the id, 0 for None
FirstLine(c, pid) ==
    LET at == {i \in 1..Len(c) : c[i].id = pid}
    IN  IF at = {} THEN 0 ELSE CHOOSE x \in at : \A y \in at : x <= y

\* variant: the quantity already in the cart is not counted
CurQty_none(c, pid) == 0

\* add_cart, line 570: cur_qty = cur["qty"] if cur else 0
CurQty(c, pid) ==
    IF FirstLine(c, pid) = 0 THEN 0 ELSE c[FirstLine(c, pid)].qty

\* variant: the product is always appended as a new line
AddLine_append(c, pid, qty, price) ==
    Append(c, [id |-> pid, qty |-> qty, price |-> price])

\* variant: a merged line takes the price of the catalog row
AddLine_reprice(c, pid, qty, price) ==
    IF FirstLine(c, pid) # 0
    THEN [c EXCEPT ![FirstLine(c, pid)] =
             [id |-> pid, qty |-> @.qty + qty, price |-> price]]
    ELSE Append(c, [id |-> pid, qty |-> qty, price |-> price])

\* variant: the quantity of an existing line is replaced
AddLine_replace(c, pid, qty, price) ==
    IF FirstLine(c, pid) # 0
    THEN [c EXCEPT ![FirstLine(c, pid)].qty = qty]
    ELSE Append(c, [id |-> pid, qty |-> qty, price |-> price])

\* add_cart, lines 574-584: cur["qty"] += qty, or a new line at the end
\* with the price of the catalog row
AddLine(c, pid, qty, price) ==
    IF FirstLine(c, pid) # 0
    THEN [c EXCEPT ![FirstLine(c, pid)].qty = @ + qty]
    ELSE Append(c, [id |-> pid, qty |-> qty, price |-> price])

\* variant: a product that is not in the catalog gets a line with price 0
add_cart_result_unknown(c, prods, pid, qty) ==
    IF pid \notin DOMAIN prods.data
    THEN [ok |-> TRUE, cart |-> AddLine(c, pid, qty, 0)]
    ELSE IF prods.data[pid] < CurQty(c, pid) + qty
    THEN [ok |-> FALSE, cart |-> c]
    ELSE [ok |-> TRUE, cart |-> AddLine(c, pid, qty, prods.price[pid])]

\* add_cart, lines 559-584, on the snapshot prods that get_products
\* returned: what add_cart returns first, and the cart it leaves
add_cart_result(c, prods, pid, qty) ==
    IF pid \notin DOMAIN prods.data
    THEN [ok |-> FALSE, cart |-> c]
    ELSE IF prods.data[pid] < CurQty(c, pid) + qty
    THEN [ok |-> FALSE, cart |-> c]
    ELSE [ok |-> TRUE, cart |-> AddLine(c, pid, qty, prods.price[pid])]

\* variant: the line is removed whatever its quantity
DecLine_drop(c, pid) == SelectSeq(c, LAMBDA it : it.id # pid)

\* variant: the line stays in the cart when its last unit is taken
DecLine_keep(c, pid) ==
    LET i == FirstLine(c, pid)
    IN  IF i = 0 THEN c ELSE [c EXCEPT ![i].qty = @ - 1]

\* router, lines 1049-1053: one unit less, the line is removed at one unit
DecLine(c, pid) ==
    LET i == FirstLine(c, pid)
    IN  IF i = 0 THEN c
        ELSE IF c[i].qty > 1 THEN [c EXCEPT ![i].qty = @ - 1]
        ELSE SubSeq(c, 1, i - 1) \o SubSeq(c, i + 1, Len(c))

\* router, line 1059: cart[:] = [i for i in cart if i["id"] != pid]
DelLines(c, pid) == SelectSeq(c, LAMBDA it : it.id # pid)

\* router, lines 984-989, 1023-1044, up to add_cart's await get_products():
\* the buttons add_ and inc_; the sheet of abandoned carts takes MaxRows rows
router_add(s, data) ==
    /\ pc[s] = "idle"
    /\ Len(abandoned) < MaxRows
    /\ Len(split(data)) = 3 \/ SubSeq(data, 1, 4) = "inc_"
    /\ user_data' = [user_data EXCEPT ![s] = Put(@, "last_menu", data)]
    /\ update' = [update EXCEPT ![s] = data]
    /\ pc' = [pc EXCEPT ![s] = "ac_get"]
    /\ UNCHANGED <<sheet, L1, cache, orders, abandoned, conv, cart, records,
                   line, stockOk, reply, stock0, prices, utcnow,
                   current_version, total, written,
                   lastWriter, service>>

\* add_cart, lines 559-596, and the router's get_products for add_: the
\* product and stock checks, the merged or new line, alert_admin and the
\* row of the abandoned cart, whose failure is only logged; the sheet of
\* abandoned carts takes MaxRows rows
add_cart_effect(s, pid, qty, add_button) ==
    \E e1, e2, e3 \in BOOLEAN :
    \E saved \in {b \in BOOLEAN : b => Len(abandoned) < MaxRows} :
        LET prods == get_products(cache, e1)
            ud    == IF "cart" \in DOMAIN user_data[s] THEN user_data[s]
                     ELSE Put(user_data[s], "cart", <<>>)
            r     == add_cart_result(ud.cart, prods, pid, qty)
            again(c) == IF add_button THEN get_products(c, e3) ELSE c
        IN  IF ~r.ok
            THEN /\ cache' = again(prods)
                 /\ reply' = [reply EXCEPT ![s] = "STOCK_EMPTY"]
                 /\ user_data' = [user_data EXCEPT ![s] =
                                      IF pid \in DOMAIN prods.data THEN ud
                                      ELSE @]
                 /\ UNCHANGED abandoned
            ELSE /\ cache' = again(alert_admin(prods, prods.data[pid] - qty,
                                               e2))
                 /\ reply' = [reply EXCEPT ![s] = "CART_ADDED"]
                 /\ user_data' = [user_data EXCEPT ![s] =
                                      Put(ud, "cart", r.cart)]
                 /\ abandoned' = IF saved
                                 THEN Append(abandoned,
                                             AbandonedRow(s, r.cart))
                                 ELSE abandoned

\* add_cart as the router calls it for add_ and inc_, lines 1030 and 1042:
\* with the product id of the callback data and the default qty = 1
add_cart(s) ==
    /\ pc[s] = "ac_get"
    /\ add_cart_effect(s, CartPid(update[s]), 1,
                       SubSeq(update[s], 1, 4) = "add_")
    /\ pc' = [pc EXCEPT ![s] = "idle"]
    /\ UNCHANGED <<sheet, L1, orders, conv, update, cart, records, line,
                   stockOk, stock0, prices, utcnow,
                   current_version, total, written,
                   lastWriter, service>>

\* router, lines 984-989 and 1046-1054: the button dec_
router_dec(s, data) ==
    /\ pc[s] = "idle"
    /\ LET ud == Put(user_data[s], "last_menu", data)
       IN  user_data' = [user_data EXCEPT ![s] =
               IF "cart" \in DOMAIN ud
               THEN Put(ud, "cart", DecLine(ud.cart, SubSeq(data, 5, Len(data))))
               ELSE ud]
    /\ update' = [update EXCEPT ![s] = data]
    /\ reply' = [reply EXCEPT ![s] = "CART"]
    /\ UNCHANGED <<sheet, L1, cache, orders, abandoned, conv, pc, cart,
                   records, line, stockOk, stock0, prices, utcnow,
                   current_version, total,
                   written, lastWriter, service>>

\* router, lines 984-989 and 1056-1060: the button del_
router_del(s, data) ==
    /\ pc[s] = "idle"
    /\ LET ud == Put(user_data[s], "last_menu", data)
       IN  user_data' = [user_data EXCEPT ![s] =
               IF "cart" \in DOMAIN ud
               THEN Put(ud, "cart", DelLines(ud.cart, SubSeq(data, 5, Len(data))))
               ELSE ud]
    /\ update' = [update EXCEPT ![s] = data]
    /\ reply' = [reply EXCEPT ![s] = "CART"]
    /\ UNCHANGED <<sheet, L1, cache, orders, abandoned, conv, pc, cart,
                   records, line, stockOk, stock0, prices, utcnow,
                   current_version, total,
                   written, lastWriter, service>>

\* the sessions of users who have not pressed a button yet; A has
\* MaxStock units in the sheet and B has one
InitCart ==
    /\ sheet \in {f \in [Products -> 0..MaxStock] :
                     f["A"] = MaxStock /\ f["B"] = 1}
    /\ L1 = "0"
    /\ prices = Price
    /\ utcnow = 0
    /\ current_version = [s \in Sessions |-> None]
    /\ ServiceInit
    /\ cache = Snapshot
    /\ total = [s \in Sessions |-> 0]
    /\ orders = <<>>
    /\ conv = [s \in Sessions |-> "END"]
    /\ user_data = [s \in Sessions |-> EmptyData]
    /\ abandoned = <<>>
    /\ pc = [s \in Sessions |-> "idle"]
    /\ cart = [s \in Sessions |-> <<>>]
    /\ records = [s \in Sessions |-> sheet]
    /\ line = [s \in Sessions |-> 0]
    /\ stockOk = [s \in Sessions |-> "none"]
    /\ reply = [s \in Sessions |-> "none"]
    /\ update = [s \in Sessions |-> "none"]
    /\ stock0 = sheet
    /\ written = [s \in Sessions |-> {}]
    /\ lastWriter = [p \in Products |-> "none"]

\* lifespan, line 1291: CallbackQueryHandler(router), the cart buttons
NextCart ==
    \E s \in Sessions :
        \/ \E data \in AddData : router_add(s, data)
        \/ add_cart(s)
        \/ \E data \in DecData : router_dec(s, data)
        \/ \E data \in DelData : router_del(s, data)

SpecCart == InitCart /\ [][NextCart]_vars

\* ------------------------------------------------------ cart during checkout
\* the sessions are at the notes step with a cart of one or two lines of
\* one unit and the cart buttons of earlier messages still work; each
\* product has one unit in the sheet
InitNotes ==
    /\ sheet = [p \in Products |-> 1]
    /\ L1 = "0"
    /\ prices = Price
    /\ utcnow = 0
    /\ current_version = [s \in Sessions |-> None]
    /\ ServiceInit
    /\ cache = Snapshot
    /\ total = [s \in Sessions |-> 0]
    /\ orders = <<>>
    /\ conv = [s \in Sessions |-> "ASK_NOTES"]
    /\ \E cs \in [Sessions -> {c \in Carts \ {<<>>} :
                                  \A i \in 1..Len(c) : c[i].qty = 1}] :
         /\ user_data = [s \in Sessions |-> SessionData(s, cs[s], "WELCOME10")]
         /\ abandoned = AbandonedOf(Sessions, cs)
    /\ pc = [s \in Sessions |-> "idle"]
    /\ cart = [s \in Sessions |-> <<>>]
    /\ records = [s \in Sessions |-> sheet]
    /\ line = [s \in Sessions |-> 0]
    /\ stockOk = [s \in Sessions |-> "none"]
    /\ reply = [s \in Sessions |-> "none"]
    /\ update = [s \in Sessions |-> "none"]
    /\ stock0 = sheet
    /\ written = [s \in Sessions |-> {}]
    /\ lastWriter = [p \in Products |-> "none"]

NextNotes ==
    \E s \in Sessions :
        \/ \E data \in DecData : router_dec(s, data)
        \/ \E data \in DelData : router_del(s, data)
        \/ confirm_order(s, "no onions")
        \/ update_stock_negative(s)
        \/ update_stock_write(s)
        \/ update_stock_cache(s)
        \/ confirm_order_totals(s)
        \/ confirm_order_save(s)

SpecNotes == InitNotes /\ [][NextNotes]_vars

\* ----------------------------------------------------------------- add_cart
\* product ids add_cart is called with: the rows of the sheet and an id
\* that has no row
Pids == Products \cup {"Z"}

\* add_cart(ctx, pid, qty) called with any quantity from 1 to MaxQty
add_cart_qty(s, pid, qty) ==
    /\ pc[s] = "idle"
    /\ add_cart_effect(s, pid, qty, FALSE)
    /\ UNCHANGED <<sheet, L1, orders, conv, pc, update, cart, records, line,
                   stockOk, stock0, prices, utcnow,
                   current_version, total, written,
                   lastWriter, service>>

\* sessions with no cart yet; the snapshot of the catalog was taken when
\* the stock of A was another one, and B has one unit
InitAdd ==
    /\ sheet \in {f \in [Products -> 0..MaxStock] : f["B"] = 1}
    /\ L1 = "0"
    /\ prices = Price
    /\ utcnow = 0
    /\ current_version = [s \in Sessions |-> None]
    /\ ServiceInit
    /\ \E old \in 0..MaxStock : cache = [Snapshot EXCEPT !.data["A"] = old]
    /\ orders = <<>>
    /\ conv = [s \in Sessions |-> "END"]
    /\ user_data = [s \in Sessions |-> EmptyData]
    /\ abandoned = <<>>
    /\ pc = [s \in Sessions |-> "idle"]
    /\ cart = [s \in Sessions |-> <<>>]
    /\ records = [s \in Sessions |-> sheet]
    /\ line = [s \in Sessions |-> 0]
    /\ stockOk = [s \in Sessions |-> "none"]
    /\ reply = [s \in Sessions |-> "none"]
    /\ update = [s \in Sessions |-> "none"]
    /\ total = [s \in Sessions |-> 0]
    /\ stock0 = sheet
    /\ written = [s \in Sessions |-> {}]
    /\ lastWriter = [p \in Products |-> "none"]

NextAdd ==
    \E s \in Sessions, pid \in Pids, qty \in 1..MaxQty :
        add_cart_qty(s, pid, qty)

SpecAdd == InitAdd /\ [][NextAdd]_vars

\* ------------------------------------------------------------------ prices
\* prices the shop gives product A in the sheet, in cents
PricesOfA == {600, 500}

\* the shop edits the products sheet by hand: a new price for A, with or
\* without a new value in the version cell L1 that get_products probes
sheet_edit_price(v, bump) ==
    /\ prices["A"] # v
    /\ prices' = [prices EXCEPT !["A"] = v]
    /\ IF bump
       THEN \E n \in 0..(MaxVersion - 1) :
              L1 = ToString(n) /\ L1' = ToString(n + 1)
       ELSE UNCHANGED L1
    /\ UNCHANGED <<sheet, utcnow,
                   current_version, cache, orders, abandoned, conv, user_data,
                   pc, cart, records, line, stockOk, reply, update, total,
                   stock0, written, lastWriter, service>>

\* sessions that have reached the notes step with an empty cart and go on
\* shopping; the snapshot of the catalog has two units of A and one of B,
\* and one unit of A may have left the sheet since
InitPrice ==
    /\ sheet \in {f \in [Products -> 1..2] : f["B"] = 1}
    /\ L1 = "0"
    /\ prices = Price
    /\ utcnow = 0
    /\ current_version = [s \in Sessions |-> None]
    /\ ServiceInit
    /\ cache = [Snapshot EXCEPT !.data["A"] = 2]
    /\ orders = <<>>
    /\ conv = [s \in Sessions |-> "ASK_NOTES"]
    /\ user_data = [s \in Sessions |-> SessionData(s, <<>>, "WELCOME10")]
    /\ abandoned = <<>>
    /\ pc = [s \in Sessions |-> "idle"]
    /\ cart = [s \in Sessions |-> <<>>]
    /\ records = [s \in Sessions |-> sheet]
    /\ line = [s \in Sessions |-> 0]
    /\ stockOk = [s \in Sessions |-> "none"]
    /\ reply = [s \in Sessions |-> "none"]
    /\ update = [s \in Sessions |-> "none"]
    /\ total = [s \in Sessions |-> 0]
    /\ stock0 = sheet
    /\ written = [s \in Sessions |-> {}]
    /\ lastWriter = [p \in Products |-> "none"]

\* the shop's price edits, and the cart buttons and the commit of one
\* session
NextPrice ==
    \/ \E v \in PricesOfA, bump \in BOOLEAN : sheet_edit_price(v, bump)
    \/ \E s \in {"s1"} :
          \/ \E data \in {"add_A_c1", "inc_B"} : router_add(s, data)
          \/ add_cart(s)
          \/ confirm_order(s, "no onions")
          \/ update_stock_negative(s)
          \/ update_stock_write(s)
          \/ update_stock_cache(s)
          \/ confirm_order_totals(s)
          \/ confirm_order_save(s)

SpecPrice == InitPrice /\ [][NextPrice]_vars

\* ------------------------------------------------------------ get_products
\* one call of get_products step by step, with the clock and the sheet
\* moving between its awaits
MaxNow == 6

\* variant: every call reloads
needs_reload_always(c, version, t) == TRUE

\* get_products, lines 400-403: no _data or no _version, the probed version
\* differs from _version, or utcnow() is past _ts
needs_reload(c, version, t) ==
    c = NoSnapshot \/ c.version # version \/ t > c.ts

\* the clock advances
tick ==
    /\ utcnow < MaxNow
    /\ utcnow' = utcnow + 1
    /\ UNCHANGED <<sheet, prices, L1, current_version, cache, orders,
                   abandoned, conv, user_data, pc, cart, records, line,
                   stockOk, reply, update, total, stock0, written, lastWriter,
                   service>>

\* get_products, lines 398-403 and 410-414: the probe of cell L1 and the
\* decision; a failed probe returns the cached rows, or raises without any
\* (update records the call for this session)
get_products_probe(s) ==
    /\ pc[s] = "idle"
    /\ \E ok \in BOOLEAN :
         IF ~ok
         THEN /\ update' = [update EXCEPT ![s] = "probe_failed"]
              /\ UNCHANGED <<current_version, pc>>
         ELSE /\ update' = [update EXCEPT ![s] = "probed"]
              /\ current_version' = [current_version EXCEPT ![s] = L1]
              /\ pc' = [pc EXCEPT ![s] =
                          IF needs_reload(cache, L1, utcnow)
                          THEN "gp_load" ELSE "idle"]
    /\ UNCHANGED <<sheet, prices, L1, utcnow, cache, orders, abandoned, conv,
                   user_data, cart, records, line, stockOk, reply, total,
                   stock0, written, lastWriter, service>>

\* get_products, lines 404-409: load_products has read the sheet; _data,
\* _version and _ts are stored.  load_products, lines 369-371: any error of
\* the read is raised again as SystemExit, which `except Exception` at line
\* 410 does not catch: it leaves get_products and the handler that called
\* it (pc "SystemExit": that handler never returns)
get_products_load(s) ==
    /\ pc[s] = "gp_load"
    /\ \E ok \in BOOLEAN :
         IF ok
         THEN /\ cache' = [Snapshot EXCEPT !.version = current_version[s]]
              /\ pc' = [pc EXCEPT ![s] = "idle"]
              /\ update' = [update EXCEPT ![s] = "loaded"]
         ELSE /\ pc' = [pc EXCEPT ![s] = "SystemExit"]
              /\ update' = [update EXCEPT ![s] = "load_failed"]
              /\ UNCHANGED cache
    /\ UNCHANGED <<sheet, prices, L1, utcnow, current_version, orders,
                   abandoned, conv, user_data, cart, records, line, stockOk,
                   reply, total, stock0, written, lastWriter, service>>

InitCatalog ==
    /\ sheet = [p \in Products |-> MaxStock]
    /\ prices = Price
    /\ L1 = "0"
    /\ utcnow = 0
    /\ current_version = [s \in Sessions |-> None]
    /\ ServiceInit
    /\ cache = NoSnapshot
    /\ orders = <<>>
    /\ abandoned = <<>>
    /\ conv = [s \in Sessions |-> "END"]
    /\ user_data = [s \in Sessions |-> EmptyData]
    /\ pc = [s \in Sessions |-> "idle"]
    /\ cart = [s \in Sessions |-> <<>>]
    /\ records = [s \in Sessions |-> <<>>]
    /\ line = [s \in Sessions |-> 1]
    /\ stockOk = [s \in Sessions |-> TRUE]
    /\ reply = [s \in Sessions |-> "none"]
    /\ update = [s \in Sessions |-> "none"]
    /\ total = [s \in Sessions |-> 0]
    /\ stock0 = sheet
    /\ written = [s \in Sessions |-> {}]
    /\ lastWriter = [p \in Products |-> None]

NextCatalog ==
    \/ tick
    \/ \E v \in PricesOfA, bump \in BOOLEAN : sheet_edit_price(v, bump)
    \/ \E s \in Sessions : get_products_probe(s)
    \/ \E s \in Sessions : get_products_load(s)

SpecCatalog == InitCatalog /\ [][NextCatalog]_vars

\* -------------------------------------------------------------- alert_admin
\* the stock commit of one session with the messages to the admin: the
\* steps after a stock write one by one (the specifications above take
\* them as one step and do not record the messages)

\* a bot.send_message / bot.send_photo to ADMIN_ID and whether it went out
Alert(kind, s, pid, stock, sent) ==
    [kind |-> kind, by |-> s, pid |-> pid, stock |-> stock, sent |-> sent]

\* the low-stock sends of session s for product pid so far
Attempts(s, pid) ==
    {k \in 1..Len(alerts) :
        alerts[k].kind = "low_stock" /\ alerts[k].by = s /\ alerts[k].pid = pid}

\* update_stock: the loop goes to the next cart line
NextLine(s) ==
    /\ line' = [line EXCEPT ![s] = @ + 1]
    /\ pc' = [pc EXCEPT ![s] = "us_line"]

\* update_stock, line 636: (await get_products())[pid]["stock"] = new, and
\* alert_admin, line 447: the test of the threshold.  A reload whose
\* load_products fails leaves update_stock and the handler by SystemExit
update_stock_entry(s) ==
    /\ pc[s] = "us_cache"
    /\ \E e \in BOOLEAN, load \in BOOLEAN :
         IF get_products(cache, e) # cache /\ ~load
         THEN /\ pc' = [pc EXCEPT ![s] = "SystemExit"]
              /\ UNCHANGED <<cache, line>>
         ELSE /\ cache' = [get_products(cache, e)
                             EXCEPT !.data[CurItem(s).id] = NewStock(s)]
              /\ IF NewStock(s) <= LOW_STOCK_TH
                 THEN pc' = [pc EXCEPT ![s] = "aa_try"] /\ UNCHANGED line
                 ELSE NextLine(s)
    /\ UNCHANGED <<sheet, L1, orders, abandoned, update, conv, user_data,
                   cart, records, stockOk, reply, stock0, prices, utcnow,
                   current_version, total, written, lastWriter, service>>

\* variant: the failure of the third attempt is raised into update_stock,
\* which returns False
alert_admin_try_raise(s) ==
    /\ pc[s] = "aa_try"
    /\ \E sent \in BOOLEAN :
         /\ alerts' = Append(alerts, Alert("low_stock", s, CurItem(s).id,
                                           NewStock(s), sent))
         /\ IF sent
            THEN NextLine(s) /\ UNCHANGED <<conv, user_data, reply, stockOk>>
            ELSE IF Cardinality(Attempts(s, CurItem(s).id)) < 2
            THEN UNCHANGED <<pc, line, conv, user_data, reply, stockOk>>
            ELSE /\ stockOk' = [stockOk EXCEPT ![s] = "error"]
                 /\ EndConversation(s, "STOCK_EMPTY")
                 /\ UNCHANGED line
    /\ UNCHANGED <<sheet, L1, cache, orders, abandoned, update, cart, records,
                   stock0, prices, utcnow, current_version, total, written,
                   lastWriter, last_checked_row, tg_app, response,
                   shipped_cells>>

\* alert_admin, lines 448-458: one pass of `for attempt in range(3)`:
\* get_products for the name, bot.send_message, break on success; a
\* failure is logged and the next pass follows a sleep, the third is the
\* last.  A reload whose load_products fails leaves by SystemExit
alert_admin_try(s) ==
    /\ pc[s] = "aa_try"
    /\ \E e \in BOOLEAN, load \in BOOLEAN :
         IF get_products(cache, e) # cache /\ ~load
         THEN /\ pc' = [pc EXCEPT ![s] = "SystemExit"]
              /\ UNCHANGED <<cache, line, alerts>>
         ELSE /\ cache' = get_products(cache, e)
              /\ \E sent \in BOOLEAN :
                   /\ alerts' = Append(alerts,
                                       Alert("low_stock", s, CurItem(s).id,
                                             NewStock(s), sent))
                   /\ IF sent \/ Cardinality(Attempts(s, CurItem(s).id)) >= 2
                      THEN NextLine(s)
                      ELSE UNCHANGED <<pc, line>>
    /\ UNCHANGED <<sheet, L1, orders, abandoned, update, conv, user_data,
                   cart, records, stockOk, reply, stock0, prices, utcnow,
                   current_version, total, written, lastWriter,
                   last_checked_row, tg_app, response,
                   shipped_cells>>

\* confirm_order, lines 762-803: the appends, the invoice and the
\* confirmation as in confirm_order_save, then bot.send_photo to the admin
\* in its own try (787-797) and the clear of the abandoned carts
confirm_order_notify(s) ==
    /\ pc[s] = "co_append"
    /\ \E n \in 0..Len(cart[s]), ok \in BOOLEAN :
         /\ ~ok \/ n = Len(cart[s])
         /\ orders' = orders \o OrderRows(s, n)
         /\ EndConversation(s, IF ok THEN "ORDER_CONFIRMED" ELSE "ERROR_SHEET")
         /\ \E sent \in BOOLEAN, cleared \in BOOLEAN :
              /\ alerts' = IF ok
                           THEN Append(alerts,
                                       Alert("new_order", s, None,
                                             total[s], sent))
                           ELSE alerts
              /\ abandoned' = IF ok /\ cleared THEN <<>> ELSE abandoned
    /\ UNCHANGED <<sheet, L1, cache, update, cart, records, line, stockOk,
                   stock0, prices, utcnow, current_version, total, written,
                   lastWriter, last_checked_row, tg_app, response,
                   shipped_cells>>

\* one session at the notes step with a cart; a cell of the products sheet
\* holds up to one unit more than MaxStock, so that a write can leave a
\* value above the threshold
InitAlert ==
    /\ sheet \in [Products -> 0..(MaxStock + 1)]
    /\ L1 = "0"
    /\ prices = Price
    /\ utcnow = 0
    /\ current_version = [s \in Sessions |-> None]
    /\ ServiceInit
    /\ cache = Snapshot
    /\ total = [s \in Sessions |-> 0]
    /\ orders = <<>>
    /\ conv = [s \in Sessions |-> "ASK_NOTES"]
    /\ \E c \in Carts \ {<<>>} :
         /\ user_data = [s \in Sessions |->
                           SessionData(s, IF s = "s1" THEN c ELSE <<>>,
                                       "WELCOME10")]
         /\ abandoned = <<AbandonedRow("s1", c)>>
    /\ pc = [s \in Sessions |-> "idle"]
    /\ cart = [s \in Sessions |-> <<>>]
    /\ records = [s \in Sessions |-> sheet]
    /\ line = [s \in Sessions |-> 0]
    /\ stockOk = [s \in Sessions |-> "none"]
    /\ reply = [s \in Sessions |-> "none"]
    /\ update = [s \in Sessions |-> "none"]
    /\ stock0 = sheet
    /\ written = [s \in Sessions |-> {}]
    /\ lastWriter = [p \in Products |-> "none"]

NextAlert ==
    \E s \in {"s1"} :
        \/ confirm_order(s, "no onions")
        \/ update_stock_negative(s)
        \/ update_stock_write(s)
        \/ update_stock_entry(s)
        \/ alert_admin_try(s)
        \/ confirm_order_totals(s)
        \/ confirm_order_notify(s)

SpecAlert == InitAlert /\ [][NextAlert]_vars

\* ------------------------------------------------------------------ webhook
\* WEBHOOK_SECRET and the secrets a request path can carry
WEBHOOK_SECRET == "secret"
Secrets == {"secret", "guess"}

\* the session, cart and store state a handler can change
store ==
    <<sheet, prices, L1, cache, orders, abandoned, conv, user_data, pc, cart,
      records, line, stockOk, reply, update, total>>

\* lifespan, lines 1244-1270 and 1295-1297: the application is built, or
\* the startup fails and tg_app is None
lifespan_startup ==
    /\ tg_app = None
    /\ \E ok \in BOOLEAN : tg_app' = IF ok THEN "Application" ELSE None
    /\ UNCHANGED <<sheet, prices, L1, utcnow, current_version, cache, orders,
                   abandoned, conv, user_data, pc, cart, records, line,
                   stockOk, reply, update, total, stock0, written, lastWriter,
                   alerts, last_checked_row, response, shipped_cells>>

\* variant: the secret of the path is not compared
webhook_open(s, secret) ==
    /\ pc[s] = "idle"
    /\ response[s] # "processing"
    /\ \E body \in BOOLEAN :
         IF tg_app = None
         THEN /\ response' = [response EXCEPT
                                ![s] = "500 Application not initialized"]
              /\ UNCHANGED update
         ELSE IF ~body
         THEN /\ response' = [response EXCEPT ![s] = "500 Webhook error"]
              /\ UNCHANGED update
         ELSE /\ response' = [response EXCEPT ![s] = "processing"]
              /\ update' = [update EXCEPT ![s] = "request"]
    /\ UNCHANGED <<sheet, prices, L1, utcnow, current_version, cache, orders,
                   abandoned, conv, user_data, pc, cart, records, line,
                   stockOk, reply, total, stock0, written, lastWriter,
                   alerts, last_checked_row, tg_app, shipped_cells>>

\* webhook, lines 1226-1234: a request of the user's chat arrives; 403 on
\* another secret, 500 without the application or when the body is not
\* JSON, else the update is read and handed to tg_app.process_update
webhook(s, secret) ==
    /\ pc[s] = "idle"
    /\ response[s] # "processing"
    /\ \E body \in BOOLEAN :
         IF secret # WEBHOOK_SECRET
         THEN /\ response' = [response EXCEPT ![s] = "403 Invalid secret"]
              /\ UNCHANGED update
         ELSE IF tg_app = None
         THEN /\ response' = [response EXCEPT
                                ![s] = "500 Application not initialized"]
              /\ UNCHANGED update
         ELSE IF ~body
         THEN /\ response' = [response EXCEPT ![s] = "500 Webhook error"]
              /\ UNCHANGED update
         ELSE /\ response' = [response EXCEPT ![s] = "processing"]
              /\ update' = [update EXCEPT ![s] = "request"]
    /\ UNCHANGED <<sheet, prices, L1, utcnow, current_version, cache, orders,
                   abandoned, conv, user_data, pc, cart, records, line,
                   stockOk, reply, total, stock0, written, lastWriter,
                   alerts, last_checked_row, tg_app, shipped_cells>>

\* tg_app.process_update, line 1234: the update of the request goes to the
\* first handler that takes it
Dispatched(s) == response[s] = "processing" /\ update[s] = "request"

\* process_update with the callback query of an add_ button: router
process_update_add(s) == Dispatched(s) /\ router_add(s, "add_A_c1")

\* process_update with the callback query of a dec_ button: router
process_update_dec(s) ==
    \E data \in DecData : Dispatched(s) /\ router_dec(s, data)

\* webhook, line 1235: process_update has returned (no handler took the
\* update, or the handler is done): {"status": "ok"}
webhook_return(s) ==
    /\ response[s] = "processing"
    /\ pc[s] = "idle"
    /\ response' = [response EXCEPT ![s] = "200 ok"]
    /\ update' = [update EXCEPT ![s] =
                      IF @ = "request" THEN "unhandled" ELSE @]
    /\ UNCHANGED <<sheet, prices, L1, utcnow, current_version, cache, orders,
                   abandoned, conv, user_data, pc, cart, records, line,
                   stockOk, reply, total, stock0, written, lastWriter,
                   alerts, last_checked_row, tg_app, shipped_cells>>

\* the process has started: tg_app is None (line 56), no user has a
\* session yet
InitWebhook ==
    /\ sheet \in {f \in [Products -> 0..MaxStock] :
                     f["A"] = MaxStock /\ f["B"] = 1}
    /\ L1 = "0"
    /\ prices = Price
    /\ utcnow = 0
    /\ current_version = [s \in Sessions |-> None]
    /\ alerts = <<>>
    /\ last_checked_row = 1
    /\ tg_app = None
    /\ response = [s \in Sessions |-> "none"]
    /\ shipped_cells = [running |-> FALSE, rows |-> {}]
    /\ cache = Snapshot
    /\ total = [s \in Sessions |-> 0]
    /\ orders = <<>>
    /\ conv = [s \in Sessions |-> "END"]
    /\ user_data = [s \in Sessions |-> EmptyData]
    /\ abandoned = <<>>
    /\ pc = [s \in Sessions |-> "idle"]
    /\ cart = [s \in Sessions |-> <<>>]
    /\ records = [s \in Sessions |-> sheet]
    /\ line = [s \in Sessions |-> 0]
    /\ stockOk = [s \in Sessions |-> "none"]
    /\ reply = [s \in Sessions |-> "none"]
    /\ update = [s \in Sessions |-> "none"]
    /\ stock0 = sheet
    /\ written = [s \in Sessions |-> {}]
    /\ lastWriter = [p \in Products |-> "none"]

NextWebhook ==
    \/ lifespan_startup
    \/ \E s \in Sessions :
        \/ \E secret \in Secrets : webhook(s, secret)
        \/ process_update_add(s)
        \/ add_cart(s)
        \/ process_update_dec(s)
        \/ webhook_return(s)

SpecWebhook == InitWebhook /\ [][NextWebhook]_vars

\* ------------------------------------------------------- check_order_status
\* rows the order log takes
MaxOrders == 2

\* orders_ws: row 1 holds the headers, the k-th order row is row k + 1
RowNumber(k) == k + 1

\* orders_ws.findall(status): the row numbers of the cells with the text
findall(status) ==
    {RowNumber(k) : k \in {j \in 1..Len(orders) : orders[j].status = status}}

RECURSIVE Ascending(_)
\* the numbers of a set in ascending order, as findall lists its cells
Ascending(S) ==
    IF S = {} THEN <<>>
    ELSE LET x == CHOOSE y \in S : \A z \in S : y <= z
         IN  <<x>> \o Ascending(S \ {x})

\* max(last_checked_row, max((c.row for c in cells), default=1))
MaxRow(last, cells) ==
    LET S == cells \cup {1, last} IN CHOOSE x \in S : \A y \in S : y <= x

\* check_order_status, line 863: `if cell.row <= last_checked_row: continue`
Passed(row, last) == row <= last

\* check_order_status, lines 862-867: the rows of shipped_cells +
\* preparing_cells that are past last_checked_row and not yet notified
ToNotify(cells) ==
    SelectSeq(cells,
              LAMBDA r : /\ ~Passed(r, last_checked_row)
                         /\ r - 1 \in 1..Len(orders)
                         /\ orders[r - 1].notified # "TRUE")

\* orders_ws.update_cell(row, 18, "TRUE") for the rows of R
Notified(R) ==
    [k \in 1..Len(orders) |->
        IF RowNumber(k) \in R THEN [orders[k] EXCEPT !.notified = "TRUE"]
        ELSE orders[k]]

\* confirm_order, lines 764-771: a commit of user s appends an order row
append_row(s) ==
    /\ Len(orders) < MaxOrders
    /\ orders' = Append(orders,
                        [order_id |-> s, user_id |-> s, id |-> "A", qty |-> 1,
                         price |-> Price["A"], discount |-> 0,
                         status |-> "preparing", notified |-> "FALSE"])
    /\ UNCHANGED <<sheet, prices, L1, utcnow, current_version, cache,
                   abandoned, conv, user_data, pc, cart, records, line,
                   stockOk, reply, update, total, stock0, written, lastWriter,
                   service>>

\* the shop sets the status cell of an order row from preparing to shipped
sheet_edit_status(k) ==
    /\ k \in 1..Len(orders)
    /\ orders[k].status = "preparing"
    /\ orders' = [orders EXCEPT ![k].status = "shipped"]
    /\ UNCHANGED <<sheet, prices, L1, utcnow, current_version, cache,
                   abandoned, conv, user_data, pc, cart, records, line,
                   stockOk, reply, update, total, stock0, written, lastWriter,
                   service>>

\* check_order_status, lines 857-860: a run of the job starts and
\* orders_ws.findall("shipped") returns
check_order_status_shipped ==
    /\ ~shipped_cells.running
    /\ shipped_cells' = [running |-> TRUE, rows |-> findall("shipped")]
    /\ UNCHANGED <<sheet, prices, L1, utcnow, current_version, cache, orders,
                   abandoned, conv, user_data, pc, cart, records, line,
                   stockOk, reply, update, total, stock0, written, lastWriter,
                   alerts, last_checked_row, tg_app, response>>

\* check_order_status, lines 861-878: findall("preparing") returns, every
\* row to notify gets its message and its flag, and _last_checked_row
\* moves to the last row of the found cells
check_order_status ==
    /\ shipped_cells.running
    /\ LET cells == Ascending(shipped_cells.rows)
                    \o Ascending(findall("preparing"))
       IN  /\ orders' = Notified({ToNotify(cells)[i] :
                                    i \in 1..Len(ToNotify(cells))})
           /\ last_checked_row' =
                 MaxRow(last_checked_row,
                        shipped_cells.rows \cup findall("preparing"))
    /\ shipped_cells' = [running |-> FALSE, rows |-> {}]
    /\ UNCHANGED <<sheet, prices, L1, utcnow, current_version, cache,
                   abandoned, conv, user_data, pc, cart, records, line,
                   stockOk, reply, update, total, stock0, written, lastWriter,
                   alerts, tg_app, response>>

\* check_order_status, lines 879-882: a send raises at the n-th row to
\* notify; the rows before it keep their flag, _last_checked_row stays
check_order_status_error ==
    /\ shipped_cells.running
    /\ LET cells == Ascending(shipped_cells.rows)
                    \o Ascending(findall("preparing"))
       IN  \E n \in 1..Len(ToNotify(cells)) :
             orders' = Notified({ToNotify(cells)[i] : i \in 1..(n - 1)})
    /\ shipped_cells' = [running |-> FALSE, rows |-> {}]
    /\ UNCHANGED <<sheet, prices, L1, utcnow, current_version, cache,
                   abandoned, conv, user_data, pc, cart, records, line,
                   stockOk, reply, update, total, stock0, written, lastWriter,
                   alerts, last_checked_row, tg_app, response>>

\* the application has started with an empty order log
InitStatus ==
    /\ sheet = [p \in Products |-> MaxStock]
    /\ L1 = "0"
    /\ prices = Price
    /\ utcnow = 0
    /\ current_version = [s \in Sessions |-> None]
    /\ ServiceInit
    /\ cache = Snapshot
    /\ total = [s \in Sessions |-> 0]
    /\ orders = <<>>
    /\ conv = [s \in Sessions |-> "END"]
    /\ user_data = [s \in Sessions |-> EmptyData]
    /\ abandoned = <<>>
    /\ pc = [s \in Sessions |-> "idle"]
    /\ cart = [s \in Sessions |-> <<>>]
    /\ records = [s \in Sessions |-> sheet]
    /\ line = [s \in Sessions |-> 0]
    /\ stockOk = [s \in Sessions |-> "none"]
    /\ reply = [s \in Sessions |-> "none"]
    /\ update = [s \in Sessions |-> "none"]
    /\ stock0 = sheet
    /\ written = [s \in Sessions |-> {}]
    /\ lastWriter = [p \in Products |-> "none"]

NextStatus ==
    \/ \E s \in Sessions : append_row(s)
    \/ \E k \in 1..MaxOrders : sheet_edit_status(k)
    \/ check_order_status_shipped
    \/ check_order_status
    \/ check_order_status_error

\* job_queue.run_repeating(check_order_status, interval=600), line 1268:
\* the runs recur, and a run whose sends succeed comes again and again
SpecStatus ==
    /\ InitStatus
    /\ [][NextStatus]_vars
    /\ WF_vars(check_order_status_shipped)
    /\ SF_vars(check_order_status)

\* ------------------------------------------------------------------ claims
\* the handler of session s has returned and the conversation is over
Done(s) == pc[s] = "idle" /\ conv[s] = "END"

RECURSIVE Sold(_, _)
\* quantity of product p over the commits of S whose update_stock
\* returned True
Sold(S, p) ==
    IF S = {} THEN 0
    ELSE LET s == CHOOSE x \in S : TRUE
         IN  (IF stockOk[s] = "true" THEN SumQty(cart[s], p) ELSE 0)
             + Sold(S \ {s}, p)

\* session s takes the step of the cart line it is at
LineStep(s) ==
    /\ pc[s] = "us_line"
    /\ line[s] <= Len(cart[s])
    /\ pc'[s] # "us_line"

\* session s writes the stock cell of the cart line it is at
WriteStep(s) == pc[s] = "us_line" /\ pc'[s] = "us_cache"

\* C1: no oversell: for every product, the quantities of the commits whose
\* stock update reported success add up to at most the stock S the cell
\* started with, in every interleaving of the sessions' reads and writes.
C1_NoOversell == \A p \in Products : Sold(Sessions, p) <= stock0[p]

\* C2: two sessions that each hold one unit of the same product with
\* stock 1 and both run the commit: exactly one stock update succeeds and
\* the other fails on the stock (never both succeed, never both fail).
C2_LastUnit ==
    \A p \in Products :
        (/\ stock0[p] = 1
         /\ \A s \in Sessions : cart[s] = <<Item(p, 1)>>
         /\ \A s \in Sessions : stockOk[s] \in {"true", "negative"})
        => Cardinality({s \in Sessions : stockOk[s] = "true"}) = 1

\* C3: the stock write is conditional: a commit writes a stock cell only
\* if the cell still holds the value the commit read (no lost update).
C3_ConditionalWrite ==
    [][\A s \in Sessions :
         WriteStep(s) =>
            sheet[cart[s][line[s]].id] = records[s][cart[s][line[s]].id]]_vars

\* C4: when another session changed the cell of a cart line after the
\* commit read it, the commit's step for that line does not write and does
\* not give up: it re-reads the stock and stays on the same line.
C4_RetryOnConflict ==
    [][\A s \in Sessions :
         (/\ LineStep(s)
          /\ stockOk'[s] # "api_error"
          /\ sheet[cart[s][line[s]].id] # records[s][cart[s][line[s]].id])
         => (/\ sheet' = sheet
             /\ records'[s] = sheet
             /\ line'[s] = line[s])]_vars

\* C5: a cart line whose quantity exceeds the stock read from the sheet
\* makes update_stock fail at that line, and the step writes neither that
\* product's stock cell nor its cache entry.
C5_ExceedingLineFails ==
    [][\A s \in Sessions :
         (/\ LineStep(s)
          /\ cart[s][line[s]].qty > records[s][cart[s][line[s]].id])
         => (/\ stockOk'[s] = "negative"
             /\ sheet'[cart[s][line[s]].id] = sheet[cart[s][line[s]].id]
             /\ cache'.data[cart[s][line[s]].id]
                    = cache.data[cart[s][line[s]].id])]_vars

\* C5 witness: a commit has failed at a line that asks for more than was read
C5_Witness ==
    \E s \in Sessions :
        /\ stockOk[s] = "negative"
        /\ cart[s][line[s]].qty > records[s][cart[s][line[s]].id]

\* C6: the stock a commit compares with and subtracts from is the value it
\* read from the products sheet when it started, never the cached one: the
\* commit's records are the sheet at its read, every write stores read
\* stock minus quantity with quantity <= read stock, and update_stock
\* returns True only if every line's quantity is at most the stock read.
C6_StockFromSheet ==
    [][\A s \in Sessions :
         /\ (pc[s] = "idle" /\ pc'[s] = "us_line") => records'[s] = sheet
         /\ WriteStep(s) =>
              /\ cart[s][line[s]].qty <= records[s][cart[s][line[s]].id]
              /\ sheet'[cart[s][line[s]].id]
                   = records[s][cart[s][line[s]].id] - cart[s][line[s]].qty
         /\ (stockOk[s] # "true" /\ stockOk'[s] = "true") =>
              \A i \in 1..Len(cart[s]) :
                  cart[s][i].qty <= records[s][cart[s][i].id]]_vars

\* C6 witness: a commit failed on the stock it read while the cache still
\* held a higher stock that would have covered the line
C6_Witness ==
    \E s \in Sessions :
        /\ stockOk[s] = "negative"
        /\ cart[s][line[s]].qty <= cache.data[cart[s][line[s]].id]
        /\ cache.data[cart[s][line[s]].id] > records[s][cart[s][line[s]].id]

\* C7: a stock conflict keeps the cart: after confirm_order has returned
\* from a failed stock update, user_data still holds the cart's lines.
C7_ConflictKeepsCart ==
    \A s \in Sessions :
        (Done(s) /\ stockOk[s] = "negative")
        => Get(user_data[s], "cart", <<>>) = cart[s]

\* C8: a hard error that is not about stock (the order sheet or the
\* discounts sheet fails) ends the commit with the session's cart kept.
C8_HardErrorKeepsCart ==
    \A s \in Sessions :
        (Done(s) /\ reply[s] \in {"ERROR_SHEET", "ERROR_ORDER"})
        => Get(user_data[s], "cart", <<>>) = cart[s]

\* C9: when update_stock fails at line k, the commit has written exactly
\* the cells of lines 1..k-1, each of them still holds read stock minus
\* quantity unless another session wrote it since (no compensating write),
\* and the commit has not touched the cells of lines k and later.
C9_EarlierDecrementsStay ==
    \A s \in Sessions :
        (stockOk[s] \in {"negative", "api_error"} /\ line[s] >= 1)
        => /\ written[s] = {cart[s][j].id : j \in 1..(line[s] - 1)}
           /\ \A j \in 1..(line[s] - 1) :
                lastWriter[cart[s][j].id] = s =>
                    sheet[cart[s][j].id]
                        = records[s][cart[s][j].id] - cart[s][j].qty
           /\ \A j \in line[s]..Len(cart[s]) :
                /\ lastWriter[cart[s][j].id] # s
                /\ lastWriter[cart[s][j].id] = "none" =>
                       sheet[cart[s][j].id] = stock0[cart[s][j].id]

\* C9 witness: a commit failed at its second line after writing the first
C9_Witness ==
    \E s \in Sessions :
        /\ stockOk[s] = "negative"
        /\ line[s] = 2
        /\ written[s] = {cart[s][1].id}
        /\ sheet[cart[s][1].id] = records[s][cart[s][1].id] - cart[s][1].qty

\* C10: when some but not all lines fail the stock commit, the order log
\* gets a PARTIAL_FAILURE record of this order holding exactly the lines
\* that were committed.
C10_PartialFailureRecorded ==
    \A s \in Sessions :
        (Done(s) /\ stockOk[s] = "negative" /\ written[s] # {})
        => {orders[i].id : i \in {j \in 1..Len(orders) :
                                    /\ orders[j].order_id = s
                                    /\ orders[j].status = "PARTIAL_FAILURE"}}
             = written[s]

Handled(s, t) ==
    /\ pc[s] = "idle"
    /\ update'[s] = t
    /\ <<conv[s], user_data[s], reply[s], update[s]>>
         # <<conv'[s], user_data'[s], reply'[s], update'[s]>>

\* the handler keeps the state and the stored fields and answers msg
Stays(s, msg) ==
    /\ conv'[s] = conv[s]
    /\ user_data'[s] = user_data[s]
    /\ reply'[s] = msg

\* C12: /cancel is accepted in every state of the order conversation
\* (name, phone, address, postal, discount, notes): whenever the session
\* waits in such a state the cancel handler can take /cancel, and handling
\* it ends the conversation and leaves user_data without cart and fields.
C12_CancelAccepted ==
    [][\A s \in Sessions :
         /\ (pc[s] = "idle" /\ conv[s] \in ConvStates)
               => ENABLED cancel_order(s, "/cancel")
         /\ Handled(s, "/cancel")
               => conv'[s] = "END" /\ user_data'[s] = EmptyData]_vars

\* C12 witness: a session was cancelled, which ended its conversation and
\* emptied user_data, while the other one waits in the notes step
C12_Witness ==
    \E s, t \in Sessions :
        /\ update[s] = "/cancel"
        /\ reply[s] = "ORDER_CANCELLED"
        /\ Done(s)
        /\ user_data[s] = EmptyData
        /\ conv[t] = "ASK_NOTES"

\* C13: handling /cancel changes only the session: the products sheet,
\* the order log and the catalog cache are the same before and after
\* cancel_order, in whatever state the cancel arrives.
C13_CancelIsLocal ==
    [][\A s \in Sessions :
         Handled(s, "/cancel")
         => sheet' = sheet /\ orders' = orders /\ cache' = cache]_vars

\* C13 witness: a session was cancelled after another commit had written
\* the sheet and the order log, and both still hold what was written
C13_Witness ==
    \E s \in Sessions :
        /\ update[s] = "/cancel"
        /\ reply[s] = "ORDER_CANCELLED"
        /\ orders # <<>>
        /\ sheet # stock0

\* C14: an input that fails the validation of its state (a phone number
\* without +39 or shorter than 10, an address shorter than 10, a discount
\* code that is unknown, inactive or expired) keeps the conversation in the
\* state and the stored fields as they are and is answered by the prompt
\* of the state; no text ends the conversation in the discount step.
C14_InvalidInputStays ==
    [][\A s \in Sessions :
         /\ \A t \in {"+39", "3331234567"} :
               (conv[s] = "ASK_PHONE" /\ Handled(s, t))
               => Stays(s, "PHONE_INVALID")
         /\ (conv[s] = "ASK_ADDRESS" /\ Handled(s, "Via 1"))
               => Stays(s, "ADDRESS_INVALID")
         /\ \A t \in {"NOPE", "OFF10", "OLD10"} :
               (conv[s] = "ASK_DISCOUNT" /\ Handled(s, t))
               => Stays(s, "DISCOUNT_INVALID")
         /\ \A t \in CodeTexts :
               (conv[s] = "ASK_DISCOUNT" /\ Handled(s, t))
               => \/ Stays(s, "DISCOUNT_INVALID")
                  \/ /\ conv'[s] = "ASK_NOTES"
                     /\ user_data'[s] = Put(user_data[s], "discount_code", t)
                     /\ t \in DOMAIN Discounts]_vars

\* C14 witness: an expired code was refused in the discount step with the
\* earlier fields kept, and a short phone number in the phone step
C14_Witness ==
    \E s, t \in Sessions :
        /\ conv[s] = "ASK_DISCOUNT"
        /\ reply[s] = "DISCOUNT_INVALID"
        /\ update[s] = "OLD10"
        /\ {"name", "phone", "address", "postal"} \subseteq DOMAIN user_data[s]
        /\ conv[t] = "ASK_PHONE"
        /\ reply[t] = "PHONE_INVALID"
        /\ update[t] = "+39"

\* the forward transition of each state of the conversation
Forward ==
    {<<"END", "ASK_NAME">>, <<"ASK_NAME", "ASK_PHONE">>,
     <<"ASK_PHONE", "ASK_ADDRESS">>, <<"ASK_ADDRESS", "ASK_POSTAL">>,
     <<"ASK_POSTAL", "ASK_DISCOUNT">>, <<"ASK_DISCOUNT", "ASK_NOTES">>}

\* C15: the conversation advances in the order name, phone, address,
\* postal code, discount code, notes, commit: a step changes the state
\* only to the one next state or ends the conversation, and the stock
\* commit starts only from the notes step with every earlier field stored.
C15_StepsInOrder ==
    [][\A s \in Sessions :
         /\ conv'[s] # conv[s]
               => <<conv[s], conv'[s]>> \in Forward \/ conv'[s] = "END"
         /\ (pc[s] = "idle" /\ pc'[s] = "us_line")
               => /\ conv[s] = "ASK_NOTES"
                  /\ {"name", "phone", "address", "postal", "discount_code"}
                        \subseteq DOMAIN user_data[s]
                  /\ "notes" \in DOMAIN user_data'[s]]_vars

\* C15 witness: a commit runs after the six steps stored their fields
C15_Witness ==
    \E s \in Sessions :
        /\ pc[s] = "us_line"
        /\ conv[s] = "ASK_NOTES"
        /\ user_data[s]["name"] = "Ali"
        /\ user_data[s]["phone"] = "+391234567"
        /\ user_data[s]["address"] = "Via Roma 12"
        /\ user_data[s]["postal"] = "06121"
        /\ user_data[s]["discount_code"] = "WELCOME10"
        /\ user_data[s]["notes"] = "no onions"

\* C16: with the destination Perugia an accepted address moves the
\* conversation to the discount step and the postal step is not entered;
\* the postal step is entered only with the destination Italia.
C16_PerugiaSkipsPostal ==
    [][\A s \in Sessions :
         /\ (/\ conv[s] = "ASK_ADDRESS"
             /\ conv'[s] \in ConvStates \ {"ASK_ADDRESS"}
             /\ Get(user_data[s], "dest", None) = "Perugia")
               => conv'[s] = "ASK_DISCOUNT"
         /\ (conv[s] # "ASK_POSTAL" /\ conv'[s] = "ASK_POSTAL")
               => Get(user_data[s], "dest", None) = "Italia"]_vars

\* C17: after the notes step the session is in a REVIEW state before a
\* stock commit starts: the commit starts only from REVIEW.
C17_ReviewBeforeCommit ==
    [][\A s \in Sessions :
         (pc[s] = "idle" /\ pc'[s] = "us_line") => conv[s] = "REVIEW"]_vars

\* C20: in every reachable state the cart of a session holds at most one
\* line per product id, after any sequence of the buttons add_, inc_, dec_
\* and del_.
C20_OneLinePerProduct ==
    \A s \in Sessions :
        LET c == Get(user_data[s], "cart", <<>>)
        IN  \A i, j \in 1..Len(c) : c[i].id = c[j].id => i = j

\* C20 witness: a cart with a line of two units made by two adds and a
\* line of the other product, after a dec_ or del_ of the other session
C20_Witness ==
    \E s, t \in Sessions :
        /\ pc[s] = "idle"
        /\ Len(Get(user_data[s], "cart", <<>>)) = 2
        /\ \E i \in 1..2 : user_data[s].cart[i].qty = 2
        /\ update[t] \in DecData \cup DelData
        /\ "cart" \in DOMAIN user_data[t]

\* C18: a cart line whose product is not in the catalog at commit time is
\* not accepted: update_stock does not return True for a cart with such a
\* line and no order row is written for a product that has no row.
C18_MissingLineRefused ==
    \A s \in Sessions :
        /\ stockOk[s] = "true" =>
              \A i \in 1..Len(cart[s]) : cart[s][i].id \in DOMAIN stock0
        /\ \A i \in 1..Len(orders) : orders[i].id \in DOMAIN stock0

\* C19: a successful commit ends the conversation and destroys the
\* session: after the confirmation user_data holds no cart and no field.
C19_SuccessClearsSession ==
    \A s \in Sessions :
        (pc[s] = "idle" /\ reply[s] = "ORDER_CONFIRMED")
        => conv[s] = "END" /\ user_data[s] = EmptyData

\* C19 witness: a commit was confirmed with a row for each line of its cart
C19_Witness ==
    \E s \in Sessions :
        /\ pc[s] = "idle"
        /\ reply[s] = "ORDER_CONFIRMED"
        /\ Cardinality({i \in 1..Len(orders) : orders[i].order_id = s})
             = Len(cart[s])
        /\ written[s] # {}

\* the cart of session s, empty when user_data has no cart
CartOf(s) == Get(user_data[s], "cart", <<>>)

\* C21: in every reachable state every cart line has a quantity of at
\* least 1: no sequence of add_, inc_, dec_ and del_ leaves a line with
\* quantity 0 or less in the cart.
C21_QuantityAtLeastOne ==
    \A s \in Sessions :
        \A i \in 1..Len(CartOf(s)) :
            CartOf(s)[i].qty \in Nat \ {0}

\* C21 witness: dec_ took the last unit of a line that the sheet of
\* abandoned carts shows with one unit, and the line is gone
C21_Witness ==
    \E s \in Sessions :
        /\ pc[s] = "idle"
        /\ update[s] = "dec_A"
        /\ "cart" \in DOMAIN user_data[s]
        /\ FirstLine(CartOf(s), "A") = 0
        /\ \E k \in 1..Len(abandoned) :
              /\ abandoned[k].user_id = s
              /\ abandoned[k].cart = <<Item("A", 1)>>

C23_UnknownProductRefused ==
    \A s \in Sessions, qty \in 1..MaxQty :
        \A pid \in Pids \ DOMAIN cache.data :
            LET r == add_cart_result(CartOf(s), cache, pid, qty)
            IN  ~r.ok /\ r.cart = CartOf(s)

\* C23 witness: an add for an id without a row was refused before the
\* session had a cart, while the other session holds a cart
C23_Witness ==
    \E s, t \in Sessions :
        /\ reply[s] = "STOCK_EMPTY"
        /\ "cart" \notin DOMAIN user_data[s]
        /\ CartOf(t) # <<>>
        /\ reply[t] = "STOCK_EMPTY"

\* C24: re-adding merges: on the same snapshot add_cart(p, q1) followed by
\* add_cart(p, q2), when both succeed, leave the same cart (lines, order,
\* quantities, prices) as a single add_cart(p, q1 + q2), which succeeds.
C24_ReAddMerges ==
    \A s \in Sessions, pid \in Products :
        \A q1, q2 \in 1..MaxQty :
            LET r1 == add_cart_result(CartOf(s), cache, pid, q1)
                r2 == add_cart_result(r1.cart, cache, pid, q2)
                r  == add_cart_result(CartOf(s), cache, pid, q1 + q2)
            IN  (r1.ok /\ r2.ok) => (r.ok /\ r.cart = r2.cart)

\* C24 witness: the sheet of abandoned carts shows the cart of a session
\* after its first add of A, and a second add has merged into that line
C24_Witness ==
    \E s \in Sessions :
        /\ reply[s] = "CART_ADDED"
        /\ CartOf(s) = <<Item("B", 1), Item("A", 2)>>
        /\ \E k \in 1..Len(abandoned) :
              /\ abandoned[k].user_id = s
              /\ abandoned[k].cart = <<Item("B", 1), Item("A", 1)>>

\* C25: dec_ of a product: a line with quantity above 1 loses exactly one
\* unit, a line with quantity 1 is removed, and with no line of the
\* product the cart stays as it is; every other line is untouched.
C25_DecrementLine ==
    [][\A s \in Sessions, p \in Products :
         Handled(s, "dec_" \o p) =>
            LET c  == Get(user_data[s], "cart", <<>>)
                c2 == Get(user_data'[s], "cart", <<>>)
            IN  IF SumQty(c, p) > 1
                THEN /\ Len(c2) = Len(c)
                     /\ \A i \in 1..Len(c) :
                           c2[i] = IF c[i].id = p
                                   THEN [c[i] EXCEPT !.qty = @ - 1]
                                   ELSE c[i]
                ELSE c2 = SelectSeq(c, LAMBDA it : it.id # p)]_vars

\* C25 witness: the sheet of abandoned carts shows the cart with two
\* units of A before B, and dec_A has left one unit of A before B
C25_Witness ==
    \E s \in Sessions :
        /\ pc[s] = "idle"
        /\ update[s] = "dec_A"
        /\ CartOf(s) = <<Item("A", 1), Item("B", 1)>>
        /\ \E k \in 1..Len(abandoned) :
              /\ abandoned[k].user_id = s
              /\ abandoned[k].cart = <<Item("A", 2), Item("B", 1)>>

\* C27: the cart operations add_, inc_, dec_ and del_ change nothing but
\* the cart of the calling session: the products sheet, the catalog
\* cache, the other sheets and the state of every other session are the
\* same before and after the operation.
C27_CartOperationsLocal ==
    [][/\ <<sheet, prices, L1, cache, orders, abandoned>>' =
            <<sheet, prices, L1, cache, orders, abandoned>>
       /\ \A s, t \in Sessions :
            (s # t /\ user_data'[s] # user_data[s])
            => <<conv[t], user_data[t], pc[t]>>' =
                 <<conv[t], user_data[t], pc[t]>>]_vars

\* the prices of the lines of product p in cart c
LinePrices(c, p) == {c[i].price : i \in {j \in 1..Len(c) : c[j].id = p}}

\* C26: the price of a cart line is the one the catalog cache held when
\* the line was first added: a step that adds the line takes the price
\* from the snapshot, no later step (a merge, a refresh of the catalog
\* with another price) changes the price of a line that stays, the commit
\* works on those lines, its total is the sum of quantity times that
\* price less the discount, and the order rows carry that price.
C26_CapturedPrice ==
    [][\A s \in Sessions :
         LET c  == Get(user_data[s], "cart", <<>>)
             c2 == Get(user_data'[s], "cart", <<>>)
         IN  /\ \A p \in Products :
                   /\ (LinePrices(c, p) # {} /\ LinePrices(c2, p) # {})
                         => LinePrices(c2, p) = LinePrices(c, p)
                   /\ (LinePrices(c, p) = {} /\ LinePrices(c2, p) # {})
                         => \/ LinePrices(c2, p) = {cache.price[p]}
                            \/ LinePrices(c2, p) = {cache'.price[p]}
             /\ (pc[s] = "idle" /\ pc'[s] = "us_line") => cart'[s] = c
             /\ pc[s] # "idle" => cart'[s] = cart[s]
             /\ (pc[s] = "us_line" /\ pc'[s] = "co_append")
                   => total'[s] * 100 =
                        cart_total(cart[s]) * (100 - Discounts["WELCOME10"])
             /\ pc[s] = "co_append"
                   => \A k \in (Len(orders) + 1)..Len(orders') :
                        orders'[k].price \in LinePrices(cart[s], orders'[k].id)
       ]_vars

\* C26 witness: A was added at 600, the shop changed the price to 500 and
\* the cache was reloaded, a second add merged into the line, and the
\* commit wrote the row of two units at 600 with the total 1200 less 10%
C26_Witness ==
    \E s \in Sessions :
        /\ reply[s] = "ORDER_CONFIRMED"
        /\ prices["A"] = 500
        /\ cache.price["A"] = 500
        /\ cart[s] = <<[id |-> "A", qty |-> 2, price |-> 600]>>
        /\ total[s] = 1080
        /\ \E k \in 1..Len(orders) :
              /\ orders[k].order_id = s
              /\ orders[k].qty = 2
              /\ orders[k].price = 600
        /\ \E k \in 1..Len(abandoned) :
              abandoned[k].cart = <<[id |-> "A", qty |-> 2, price |-> 600]>>

\* C28: a code entered in the discount step is accepted only if it is in
\* the discount table and active, and /skip is taken in the discount
\* step: it records no code and moves on to the notes step.
C28_DiscountCodeOrSkip ==
    [][\A s \in Sessions :
         /\ (pc[s] = "idle" /\ conv[s] = "ASK_DISCOUNT")
               => ENABLED ask_notes(s, "/skip")
         /\ \A t \in CodeTexts :
               (conv[s] = "ASK_DISCOUNT" /\ Handled(s, t)
                  /\ conv'[s] = "ASK_NOTES")
               => t \in DOMAIN DiscountSheet /\ DiscountSheet[t].is_active
       ]_vars

\* the order rows of session s
RowsOf(s) == {k \in 1..Len(orders) : orders[k].order_id = s}

\* C29: at commit the discount is the quoted cart total times the percent
\* of the accepted code over 100 and the order total is the quoted total
\* less the discount; for the cart [A:1 at 6.00, B:2 at 4.00] and a 10%
\* code the quoted total is 14.00 and the order total 12.60.
C29_DiscountedTotal ==
    \A s \in Sessions :
        (pc[s] = "co_append"
           \/ (pc[s] = "idle" /\ reply[s] \in {"ORDER_CONFIRMED", "ERROR_SHEET"}))
        => /\ total[s] * 100 = cart_total(cart[s]) * (100 - 10)
           /\ \A k \in RowsOf(s) :
                 /\ orders[k].discount * 100 = cart_total(cart[s]) * 10
                 /\ total[s] = cart_total(cart[s]) - orders[k].discount
           /\ cart[s] = <<Item("A", 1), Item("B", 2)>>
                 => cart_total(cart[s]) = 1400 /\ total[s] = 1260

\* C29 witness: the order of the cart [A:1, B:2] with the 10% code was
\* confirmed with the total 12.60 and rows that carry the discount 1.40
C29_Witness ==
    \E s \in Sessions :
        /\ reply[s] = "ORDER_CONFIRMED"
        /\ cart[s] = <<Item("A", 1), Item("B", 2)>>
        /\ total[s] = 1260
        /\ Cardinality(RowsOf(s)) = 2
        /\ \A k \in RowsOf(s) : orders[k].discount = 140

\* C30: get_products reloads the catalog only when it has no snapshot, the
\* probed version differs from the cached one, or the TTL has expired;
\* otherwise the cached snapshot stays unchanged, and after a reload the
\* cached version is the version that call probed.
C30_ReloadOnlyWhenStale ==
    [][/\ \A s \in Sessions :
           /\ (pc[s] = "idle" /\ pc'[s] = "gp_load")
                 => /\ \/ cache = NoSnapshot
                       \/ cache.version # L1
                       \/ utcnow > cache.ts
                    /\ current_version'[s] = L1
           /\ (get_products_probe(s) /\ update'[s] = "probed"
                  /\ cache # NoSnapshot /\ cache.version = L1
                  /\ utcnow <= cache.ts)
                 => pc'[s] = "idle" /\ cache' = cache
       /\ cache' # cache
           => \E s \in Sessions :
                 /\ pc[s] = "gp_load" /\ pc'[s] = "idle"
                 /\ cache'.version = current_version[s]
                 /\ cache'.data = sheet /\ cache'.price = prices
                 /\ cache'.ts = utcnow + TTL
      ]_vars

\* C30 witness: a snapshot of version "0" was replaced after its TTL by a
\* snapshot of a later version and the new price
C30_Witness ==
    /\ cache # NoSnapshot
    /\ cache.version = "1"
    /\ cache.price["A"] = 500
    /\ cache.ts > TTL + TTL
    /\ \A s \in Sessions : pc[s] = "idle"

\* C34: stock and order log stay consistent: after confirm_order has
\* returned, a commit that decremented a stock cell has an order row for
\* every line of its cart under its order id.
C34_StockAndOrderLog ==
    \A s \in Sessions :
        (Done(s) /\ written[s] # {})
        => \A i \in 1..Len(cart[s]) :
              \E k \in RowsOf(s) :
                  orders[k].id = cart[s][i].id /\ orders[k].qty = cart[s][i].qty

\* C35: no commit writes a negative number: every stock cell of the
\* products sheet and every cached stock entry is at least 0 in every
\* state, whatever the interleaving of the commits.
C35_StockNeverNegative ==
    \A p \in Products :
        /\ sheet[p] \in Nat
        /\ p \in DOMAIN cache.data => cache.data[p] \in Nat

\* C35 witness: both sessions have written the cell of one product, which
\* started above 0 and is now 0 in the sheet and in the cache
C35_Witness ==
    \E p \in Products :
        /\ stock0[p] > 0
        /\ \A s \in Sessions : p \in written[s] /\ pc[s] = "us_line"
        /\ sheet[p] = 0
        /\ cache.data[p] = 0

\* C38: a successful commit of one user leaves the abandoned-cart rows of
\* every other user in the sheet.
C38_OtherUsersRowsStay ==
    [][\A s \in Sessions :
         (pc[s] = "co_append" /\ reply'[s] = "ORDER_CONFIRMED")
         => \A k \in 1..Len(abandoned) :
               abandoned[k].user_id # s
               => \E j \in 1..Len(abandoned') : abandoned'[j] = abandoned[k]
      ]_vars

\* C36: the stock commit and the order-log append never run for an empty
\* cart: when the notes step is answered with an empty cart, confirm_order
\* answers that the cart is empty and ends the conversation without a
\* write to the products sheet or the order log.
C36_EmptyCartNotCommitted ==
    [][\A s \in Sessions :
         (Get(user_data[s], "cart", <<>>) = <<>>
            /\ confirm_order(s, "no onions"))
         => /\ conv'[s] = "END" /\ pc'[s] = "idle"
            /\ reply'[s] = "CART_EMPTY"
            /\ sheet' = sheet /\ cache' = cache /\ orders' = orders
            /\ written'[s] = {}
      ]_vars

\* C36 witness: a user who had put lines in the cart answered the notes
\* step after the buttons had emptied the cart and was told so
C36_Witness ==
    \E s \in Sessions :
        /\ Done(s)
        /\ reply[s] = "CART_EMPTY"
        /\ \E k \in 1..Len(abandoned) :
              abandoned[k].user_id = s /\ Len(abandoned[k].cart) = 2
        /\ written[s] = {} /\ RowsOf(s) = {}

\* C31: when a catalog reload fails (the version probe or the load from
\* the sheet) while a snapshot exists, get_products returns the snapshot
\* unchanged and the calling handler goes on; the failure never ends the
\* handler or the process.
C31_ReloadFailureServesSnapshot ==
    [][\A s \in Sessions :
         (cache # NoSnapshot
            /\ (get_products_probe(s) \/ get_products_load(s))
            /\ update'[s] \in {"probe_failed", "load_failed"})
         => cache' = cache /\ pc'[s] = "idle"
      ]_vars

\* C32: a failure to deliver an admin notification never changes the
\* outcome of the session's operation: a failed low-stock send leaves the
\* commit where it was and after the third the commit goes on, the
\* new-order notice is sent for a confirmed order whose rows are all in
\* the log and its failure leaves the order confirmed, and alert_admin
\* makes at most 3 sends and none after one that succeeded.
C32_AlertFailureHarmless ==
    [][\A s \in Sessions :
         /\ (alert_admin_try(s) /\ Len(alerts') > Len(alerts))
               => /\ pc'[s] \in {"aa_try", "us_line"}
                  /\ (pc'[s] = "aa_try")
                       = (~alerts'[Len(alerts')].sent
                            /\ Cardinality(Attempts(s, CurItem(s).id)) < 2)
                  /\ Cardinality(Attempts(s, CurItem(s).id)) < 3
                  /\ \A k \in Attempts(s, CurItem(s).id) : ~alerts[k].sent
                  /\ UNCHANGED <<sheet, orders, conv, user_data, reply,
                                 stockOk, written>>
         /\ (confirm_order_notify(s) /\ Len(alerts') > Len(alerts))
               => /\ reply'[s] = "ORDER_CONFIRMED" /\ conv'[s] = "END"
                  /\ orders' = orders \o OrderRows(s, Len(cart[s]))
                  /\ UNCHANGED <<sheet, stockOk, written>>
      ]_vars

\* C32 witness: an order was confirmed although three low-stock sends for
\* one of its products and the new-order notice all failed
C32_Witness ==
    \E s \in Sessions :
        /\ Done(s)
        /\ reply[s] = "ORDER_CONFIRMED"
        /\ \E p \in Products :
              /\ Cardinality(Attempts(s, p)) = 3
              /\ \A k \in Attempts(s, p) : ~alerts[k].sent
        /\ \E k \in 1..Len(alerts) :
              alerts[k].kind = "new_order" /\ alerts[k].by = s /\ ~alerts[k].sent

\* C33: whenever a commit has written a stock value at or below the
\* low-stock threshold, a low-stock notification for that product is
\* attempted once the commit has left that line, and no low-stock
\* notification is sent for a written value above the threshold.
C33_LowStockNotified ==
    \A s \in Sessions :
        /\ \A i \in 1..Len(cart[s]) :
              LET p == cart[s][i].id
                  v == records[s][p] - cart[s][i].qty
              IN  (/\ p \in written[s]
                   /\ v <= LOW_STOCK_TH
                   /\ ~(pc[s] \in {"us_cache", "aa_try"} /\ line[s] = i))
                  => \E k \in Attempts(s, p) : alerts[k].stock = v
        /\ \A k \in 1..Len(alerts) :
              alerts[k].kind = "low_stock" => alerts[k].stock <= LOW_STOCK_TH

\* C39: the webhook hands an update to the application only when the
\* secret of the path is WEBHOOK_SECRET and the application is
\* initialised; another secret is answered 403 and a missing application
\* 500, and in both cases no session, cart or store state changes.
C39_WebhookGuard ==
    [][\A s \in Sessions :
         /\ \A secret \in Secrets \ {WEBHOOK_SECRET} :
               webhook(s, secret)
               => response'[s] = "403 Invalid secret" /\ UNCHANGED store
         /\ (webhook(s, WEBHOOK_SECRET) /\ tg_app = None)
               => /\ response'[s] = "500 Application not initialized"
                  /\ UNCHANGED store
         /\ (response[s] # "processing" /\ response'[s] = "processing")
               => webhook(s, WEBHOOK_SECRET) /\ tg_app # None
         /\ (<<conv[s], user_data[s], pc[s], cart[s], reply[s]>>
                # <<conv'[s], user_data'[s], pc'[s], cart'[s], reply'[s]>>)
               => response[s] = "processing" /\ tg_app # None
      ]_vars

\* C39 witness: the application runs, one user's button was handled and
\* answered 200, and a request with another secret was answered 403 and
\* left its user without a session
C39_Witness ==
    /\ tg_app = "Application"
    /\ response["s1"] = "200 ok"
    /\ Get(user_data["s1"], "cart", <<>>) # <<>>
    /\ response["s2"] = "403 Invalid secret"
    /\ user_data["s2"] = EmptyData

\* C37: every order row whose status is preparing or shipped and whose
\* notified flag is FALSE is eventually notified by some later run of
\* check_order_status, given that the runs recur and the sends succeed.
C37_EventuallyNotified ==
    \A k \in 1..MaxOrders :
        (/\ k <= Len(orders)
         /\ orders[k].status \in {"preparing", "shipped"}
         /\ orders[k].notified = "FALSE")
        ~> (k <= Len(orders) /\ orders[k].notified = "TRUE")

====
